---- MODULE Spec2Model ----
(***************************************************************************)
(* A model of sqlxm (github.com/danielmorell/sqlxm): a Migrator holds an   *)
(* ordered ledger of named SQL migrations and applies the ones that have   *)
(* no row in the tracking table, inside one transaction.                   *)
(*                                                                         *)
(* The model follows the latest revision of the package (the file with    *)
(* New(db, tableName, tableSchema), Run and RunUnsafe) and the backends    *)
(* package.  The program is single threaded: one API call is in progress   *)
(* at a time; a call of Run / RunUnsafe is split into the steps of run()   *)
(* that talk to the database, each of which may fail.                      *)
(*                                                                         *)
(* The database is modelled by what the SQL statements of the backends do: *)
(* a tracking table is a sequence of rows (name, hash, comment), a         *)
(* transaction is a list of pending writes applied atomically by Commit,   *)
(* and a statement run on the *sqlx.DB handle itself (existence check,     *)
(* CREATE TABLE, SELECT name, hash) is auto-committed / reads committed    *)
(* data.  The columns id and date take no part in any decision of the      *)
(* code and are left out.                                                  *)
(***************************************************************************)
EXTENDS Integers, Sequences, FiniteSets, TLC

\* ------------------------------------------------------------------ bounds

\* Number of Migrator variables of the program: New assigns a fresh Migrator
\* to one of them, so any number of instances is created over time and at
\* most MaxMigrators of them are in use at once.
MaxMigrators == 1

\* Number of migration names available to AddMigration (the longest ledger).
MaxNames == 2

\* Number of calls of Run / RunUnsafe in one execution of the program.
MaxRuns == 2

\* Number of goroutines that call RegisterBackend concurrently.
MaxGoroutines == 2

\* ------------------------------------------------------------- input sets

\* Migration names, deliberately not in alphabetical order.
NameSeq == <<"m_b", "m_a", "m_c">>

Names == {NameSeq[k] : k \in 1..MaxNames}

\* Values passed as bind arguments: a string, or a slice of values.
Str(s) == [kind |-> "string", str |-> s, elems |-> <<>>]

Slice(xs) == [kind |-> "slice", str |-> "", elems |-> xs]

\* (statement, args) pairs handed to AddMigration.  "S1" and "S2" stand for
\* two texts of the same migration (e.g. before and after reformatting).
Inputs == { <<"S1", <<>>>>, <<"S2", <<>>>> }

Comments == {"c"}

\* The single database handle, tracking table name and schema in use.
DBs == {"db"}

TableNames == {"migrations"}

Schemas == {"public"}

\* The second specification (backend registry and bindings): the Migrator
\* variables, the tracking table names, the keys given to RegisterBackend and
\* UseBackend, the backend instances registered and the driver names asked.
MaxShared == 2

SharedTables == {"migrations", "audit"}

RegisterKeys == {"postgres", "custom"}

UseKeys == {"postgres", "custom", "oracle"}

Drivers ==
  {"postgres", "pgx", "pq-timeouts", "cloudsqlpostgres", "nrpostgres",
   "cockroach", "mysql", "nrmysql", "sqlite", "sqlite3", "nrsqlite3", "oci8",
   "ora", "goracle", "godror", "sqlserver",
   "", "unknown", "Postgres", "mssql", "not-a-real-driver"}

\* The database handles a program may open, with the driver each was opened
\* with; "db" is the handle the runs use.
HandleDrivers ==
  [ db    |-> "postgres",
    pgx   |-> "pgx",
    my    |-> "mysql",
    lite  |-> "sqlite3",
    ora   |-> "godror",
    mssql |-> "sqlserver",
    odd   |-> "not-a-real-driver" ]

Handles == DOMAIN HandleDrivers

\* Keys under which a program registers a backend for a driver that has no
\* built-in one.
NewKeys == {"oracle", "unknown", "custom"}

\* Driver name reported by a handle (db.DriverName()).
DriverName(db) == HandleDrivers[db]

\* ------------------------------------------------------------- constants

SUCCESS == 0

PREVIOUS == 1

ERROR == 2

ERROR_HASH == 3

\* ------------------------------------------------------------ hashQuery

\* fmt.Sprintf("%v", arg): a string prints as itself, a slice prints as its
\* elements in square brackets, separated by single spaces.
RECURSIVE SprintV(_)

RECURSIVE joinV(_, _)

joinV(xs, k) ==
  IF k > Len(xs) THEN ""
  ELSE (IF k > 1 THEN " " ELSE "") \o SprintV(xs[k]) \o joinV(xs, k + 1)

SprintV(arg) ==
  IF arg.kind = "string" THEN arg.str
  ELSE "[" \o joinV(arg.elems, 1) \o "]"

\* fmt.Sprintf("%x", md5.Sum(b)).  The digest is kept symbolic: an injective,
\* never empty function of the hashed text.
md5Hex(text) == "md5(" \o text \o ")"

RECURSIVE writeArgs(_, _)

\* The loop of hashQuery: each arg is written with %v, nothing in between.
writeArgs(args, k) ==
  IF k > Len(args) THEN "" ELSE SprintV(args[k]) \o writeArgs(args, k + 1)

\* hashQuery(query, args...): args is the variadic slice the callee receives.
hashQuery(query, args) == md5Hex(query \o writeArgs(args, 1))

\* ------------------------------------------------------------ Migration

\* AddMigration calls hashQuery(statement, args) without spreading args, so
\* the callee receives one argument: the slice itself.
NewMigration(name, comment, statement, args) ==
  [ Name      |-> name,
    Comment   |-> comment,
    hash      |-> hashQuery(statement, <<Slice(args)>>),
    Statement |-> statement,
    args      |-> args,
    migrated  |-> FALSE ]

\* ---------------------------------------------------------------- state

VARIABLES
  registeredBackends, \* key -> the backend instance registered (a pointer)
  migrators,          \* the Migrator held by each variable of the program
  frames,             \* per Migrator: the activation of run(), and its result
  dbTables,           \* db -> table name -> the committed tracking table
  dbSchema,           \* db -> the committed effects of migration statements
  runCount,           \* calls of Run / RunUnsafe made so far
  ret,                \* what the last completed API call returned
  goroutines          \* per goroutine: its call of RegisterBackend in progress

vars ==
  <<registeredBackends, migrators, frames, dbTables, dbSchema, runCount, ret,
    goroutines>>

\* Go maps, as functions on the set of keys present.
EmptyMap == [k \in {} |-> ""]

MapPut(m, key, val) ==
  [k \in DOMAIN m \cup {key} |-> IF k = key THEN val ELSE m[k]]

\* -------------------------------------------------------- backend registry

\* Faulty variant: a driver that is not in the table has no backend key.
BackendType_NoSentinel(driverName) ==
  CASE driverName \in {"postgres", "pgx", "pq-timeouts", "cloudsqlpostgres",
                       "nrpostgres", "cockroach"} -> "postgres"
    [] driverName \in {"mysql", "nrmysql"} -> "mysql"
    [] driverName \in {"sqlite", "sqlite3", "nrsqlite3"} -> "sqlite"
    [] driverName \in {"oci8", "ora", "goracle", "godror"} -> "oracle"
    [] driverName \in {"sqlserver"} -> "sqlserver"
    [] OTHER -> ""

\* BackendType: the lookup in backendMap, which init() fills from
\* defaultBackends.
BackendType(driverName) ==
  CASE driverName \in {"postgres", "pgx", "pq-timeouts", "cloudsqlpostgres",
                       "nrpostgres", "cockroach"} -> "postgres"
    [] driverName \in {"mysql", "nrmysql"} -> "mysql"
    [] driverName \in {"sqlite", "sqlite3", "nrsqlite3"} -> "sqlite"
    [] driverName \in {"oci8", "ora", "goracle", "godror"} -> "oracle"
    [] driverName \in {"sqlserver"} -> "sqlserver"
    [] OTHER -> "unknown"

\* A backend struct before Setup: nil handle, empty names.
ZeroBackend(type) ==
  [type |-> type, db |-> "nil", table |-> "", tableSchema |-> ""]

\* Setup(db, table, tableSchema) on the instance b.  SQLite.Setup ignores the
\* schema.
Setup(b, db, table, tableSchema) ==
  [b EXCEPT !.db = db, !.table = table,
            !.tableSchema = IF b.type = "SQLite" THEN b.tableSchema
                            ELSE tableSchema]

\* ------------------------------------------------------------- database

\* The schema in which a handle creates and finds unqualified table names.
DefaultSchema(db) == "public"

NoTable == [exists |-> FALSE, rows |-> <<>>]

Row(name, hash, comment) == [name |-> name, hash |-> hash, comment |-> comment]

RowNames(rows) == {rows[k].name : k \in 1..Len(rows)}

\* A write pending in a transaction.
UpdateOp(table, hash, name) ==
  [op |-> "update", table |-> table, name |-> name, hash |-> hash,
   comment |-> "", statement |-> "", args |-> <<>>]

\* Faulty variant: the hash is stored hex-encoded once more, as the first revision's
\* insertRecord did (fmt.Sprintf("%x", m.hash)).
InsertOp_HexAgain(table, name, hash, comment) ==
  [op |-> "insert", table |-> table, name |-> name,
   hash |-> "hex(" \o hash \o ")",
   comment |-> comment, statement |-> "", args |-> <<>>]

InsertOp(table, name, hash, comment) ==
  [op |-> "insert", table |-> table, name |-> name, hash |-> hash,
   comment |-> comment, statement |-> "", args |-> <<>>]

ExecOp(statement, args) ==
  [op |-> "exec", table |-> "", name |-> "", hash |-> "",
   comment |-> "", statement |-> statement, args |-> args]

\* Faulty variant: the UPDATE has no WHERE clause.
UpdateRows_AllRows(rows, hash, name) ==
  [k \in 1..Len(rows) |-> [rows[k] EXCEPT !.hash = hash]]

\* UPDATE ?? SET hash = $1 WHERE name = $2
UpdateRows(rows, hash, name) ==
  [k \in 1..Len(rows) |->
     IF rows[k].name = name THEN [rows[k] EXCEPT !.hash = hash] ELSE rows[k]]

\* One pending write applied to the tables of a database.
ApplyOp(tables, o) ==
  CASE o.op = "update" ->
         [tables EXCEPT ![o.table].rows = UpdateRows(@, o.hash, o.name)]
    [] o.op = "insert" ->
         [tables EXCEPT ![o.table].rows =
                          Append(@, Row(o.name, o.hash, o.comment))]
    [] OTHER -> tables

RECURSIVE ApplyOps(_, _, _)

\* The tables as the transaction sees them / as Commit leaves them.
ApplyOps(tables, ops, k) ==
  IF k > Len(ops) THEN tables
  ELSE ApplyOps(ApplyOp(tables, ops[k]), ops, k + 1)

\* The migration statements among the pending writes, in execution order.
ExecutedIn(ops) == SelectSeq(ops, LAMBDA o : o.op = "exec")

NoTx == [state |-> "none", db |-> "nil", ops |-> <<>>]

\* The activation of run(): its position, tx, commit, the loop index and the
\* error it returns; logStart is len(m.log) when the call began and created
\* tells whether createMigrationTable succeeded in this call; todo holds the
\* entries of m.repair the range loop of backends.RepairHashes has yet to
\* visit; locked holds the rows (table, name) the UPDATEs of the transaction
\* matched, whose locks the transaction keeps until it ends.
NoFrame ==
  [pc |-> "idle", tx |-> NoTx, commit |-> TRUE, idx |-> 0, err |-> "",
   logStart |-> 0, created |-> FALSE, todo |-> {}, locked |-> {}]

\* The program is single threaded: no call starts while run() is active.
Idle == \A j \in DOMAIN frames : frames[j].pc = "idle"

\* A Migrator variable before New was assigned to it (the zero value: nil
\* maps and a nil backend, on which AddMigration, RepairHash and Run panic).
NoMigrator ==
  [ live |-> FALSE, db |-> "nil", TableName |-> "", tableSchema |-> "",
    migrations |-> <<>>, log |-> <<>>, previous |-> EmptyMap, safe |-> FALSE,
    repair |-> EmptyMap, names |-> {}, backend |-> "" ]

Returned(op, i, err) == [op |-> op, m |-> i, err |-> err]

\* A goroutine that has not called RegisterBackend yet.
NoCall == [pc |-> "idle", key |-> "", backend |-> ZeroBackend(""), err |-> ""]

\* No goroutine is inside RegisterBackend.
Quiet == \A g \in DOMAIN goroutines : goroutines[g].pc \in {"idle", "done"}

\* ------------------------------------------------------------------ Init

\* What an earlier process may have left in the database: no tracking
\* table, or a tracking table with the rows of a ledger it applied.
PriorMigrations ==
  {NewMigration(n, c, in[1], in[2]) : n \in Names, c \in Comments, in \in Inputs}

PriorLedgers ==
  {<<>>} \cup {<<x>> : x \in PriorMigrations}

RowsOf(ledger) ==
  [k \in 1..Len(ledger) |->
     Row(ledger[k].Name, ledger[k].hash, ledger[k].Comment)]

EffectsOf(ledger) ==
  [k \in 1..Len(ledger) |-> ExecOp(ledger[k].Statement, ledger[k].args)]

Init ==
  /\ registeredBackends =
       [key \in {"mysql", "postgres", "sqlite"} |->
          ZeroBackend(CASE key = "mysql" -> "MySQL"
                        [] key = "postgres" -> "Postgres"
                        [] OTHER -> "SQLite")]
  /\ migrators = [i \in 1..MaxMigrators |-> NoMigrator]
  /\ frames = [i \in 1..MaxMigrators |-> NoFrame]
  /\ runCount = 0
  /\ ret = Returned("init", 0, "")
  /\ goroutines = [g \in 1..MaxGoroutines |-> NoCall]
  /\ \E fresh \in BOOLEAN, ledger \in PriorLedgers :
       /\ fresh => ledger = <<>>
       /\ dbTables =
            [d \in DBs |-> [t \in TableNames |->
               IF fresh THEN NoTable
               ELSE [exists |-> TRUE, rows |-> RowsOf(ledger)]]]
       /\ dbSchema = [d \in DBs |-> EffectsOf(ledger)]

\* ----------------------------------------------------------- New, UseBackend

\* Faulty variant: an unknown key leaves the Migrator without a backend.
UseBackendMigrator_Unbind(m, key) ==
  IF key \in DOMAIN registeredBackends
  THEN [m EXCEPT !.backend = key]
  ELSE [m EXCEPT !.backend = ""]

\* m.UseBackend(key): the Migrator after the call (unchanged on error).
UseBackendMigrator(m, key) ==
  IF key \in DOMAIN registeredBackends THEN [m EXCEPT !.backend = key] ELSE m

\* m.UseBackend(key): the registry after the call; Setup acts on the
\* registered instance itself.
UseBackendRegistry(m, key) ==
  IF key \in DOMAIN registeredBackends
  THEN [registeredBackends EXCEPT
          ![key] = Setup(@, m.db, m.TableName, m.tableSchema)]
  ELSE registeredBackends

\* Faulty variant: the error of UseBackend is not passed on.
UseBackendErr_Nil(key) == ""

\* The error m.UseBackend(key) returns ("" = nil).
UseBackendErr(key) ==
  IF key \in DOMAIN registeredBackends THEN ""
  ELSE "backend '" \o key \o "' is not a registered backend"

\* New(db, tableName, tableSchema), its result assigned to variable i.
New(i, db, tableName, tableSchema) ==
  LET m == [ live        |-> TRUE,
             db          |-> db,
             TableName   |-> tableName,
             tableSchema |-> tableSchema,
             migrations  |-> <<>>,
             log         |-> <<>>,
             previous    |-> EmptyMap,
             safe        |-> FALSE,
             repair      |-> EmptyMap,
             names       |-> {},
             backend     |-> "" ]
      b == BackendType(DriverName(db))
  IN /\ Idle
     /\ migrators' = [migrators EXCEPT ![i] = UseBackendMigrator(m, b)]
     /\ registeredBackends' = UseBackendRegistry(m, b)
     /\ ret' = Returned("New", i, UseBackendErr(b))
     /\ UNCHANGED <<frames, dbTables, dbSchema, runCount, goroutines>>

\* m.UseBackend(key) on the Migrator held by variable i.
UseBackend(i, key) ==
  /\ Idle
  /\ Quiet
  /\ migrators[i].live
  /\ migrators' = [migrators EXCEPT ![i] = UseBackendMigrator(@, key)]
  /\ registeredBackends' = UseBackendRegistry(migrators[i], key)
  /\ ret' = Returned("UseBackend", i, UseBackendErr(key))
  /\ UNCHANGED <<frames, dbTables, dbSchema, runCount, goroutines>>

\* A call of BackendType(driverName); val is the string returned.
BackendTypeCall(driverName) ==
  /\ Idle
  /\ Quiet
  /\ ret' = [op |-> "BackendType", m |-> 0, err |-> "", arg |-> driverName,
             val |-> BackendType(driverName)]
  /\ UNCHANGED <<registeredBackends, migrators, frames, dbTables, dbSchema,
                 runCount, goroutines>>

\* ---------------------------------------------------------- RegisterBackend

\* Faulty variant: no key counts as bound.
KeyBound_Never(registry, key) == FALSE

\* `_, exists := registeredBackends[key]`
KeyBound(registry, key) == key \in DOMAIN registry

RegisterBackendErr(key) == "backend with key '" \o key \o "' already exists"

\* RegisterBackend(key, backend), called with no other call in progress.
RegisterBackend(key, backend) ==
  /\ Idle
  /\ Quiet
  /\ IF KeyBound(registeredBackends, key)
     THEN /\ ret' = [op |-> "RegisterBackend", m |-> 0, arg |-> key,
                     err |-> RegisterBackendErr(key)]
          /\ UNCHANGED registeredBackends
     ELSE /\ registeredBackends' = MapPut(registeredBackends, key, backend)
          /\ ret' = [op |-> "RegisterBackend", m |-> 0, arg |-> key, err |-> ""]
  /\ UNCHANGED <<migrators, frames, dbTables, dbSchema, runCount, goroutines>>

\* RegisterBackend called by goroutine g, first half: the lookup of the key
\* in the (unsynchronised) map, and the error return when it is bound.
RegisterCheck(g, key, backend) ==
  /\ goroutines[g].pc = "idle"
  /\ goroutines' = [goroutines EXCEPT ![g] =
       IF KeyBound(registeredBackends, key)
       THEN [pc |-> "done", key |-> key, backend |-> backend,
             err |-> RegisterBackendErr(key)]
       ELSE [pc |-> "write", key |-> key, backend |-> backend, err |-> ""]]
  /\ UNCHANGED <<registeredBackends, migrators, frames, dbTables, dbSchema,
                 runCount, ret>>

\* Second half: the map assignment and the nil return.
RegisterWrite(g) ==
  /\ goroutines[g].pc = "write"
  /\ registeredBackends' =
       MapPut(registeredBackends, goroutines[g].key, goroutines[g].backend)
  /\ goroutines' = [goroutines EXCEPT ![g].pc = "done"]
  /\ UNCHANGED <<migrators, frames, dbTables, dbSchema, runCount, ret>>

\* Goroutine g is at the map assignment while another goroutine accesses the
\* map: it is at its own assignment, or it calls RegisterBackend now and its
\* lookup overlaps g's assignment.  The Go runtime may detect the race and
\* abort the process ("fatal error: concurrent map writes" / "concurrent map
\* read and map write") instead of performing the accesses one after the
\* other.
RegisterCrash(g) ==
  /\ goroutines[g].pc = "write"
  /\ \E h \in DOMAIN goroutines \ {g} : goroutines[h].pc \in {"idle", "write"}
  /\ goroutines' = [h \in DOMAIN goroutines |->
                      [goroutines[h] EXCEPT !.pc = "crashed"]]
  /\ UNCHANGED <<registeredBackends, migrators, frames, dbTables, dbSchema,
                 runCount, ret>>

\* ------------------------------------------------ AddMigration, RepairHash

\* Faulty variant: no name counts as already added.
NameTaken_Never(m, name) == FALSE

\* `_, ok := m.names[name]`
NameTaken(m, name) == name \in m.names

\* Faulty variant: the new migration is put in front of the list.
Appended_InFront(migs, mig) == <<mig>> \o migs

\* `m.migrations = append(m.migrations, mig)`
Appended(migs, mig) == Append(migs, mig)

AddMigration(i, name, comment, statement, args) ==
  /\ Idle
  /\ migrators[i].live
  /\ IF NameTaken(migrators[i], name)
     THEN /\ ret' = Returned("AddMigration", i,
                             "migration '" \o name \o "' alraedy exists")
          /\ UNCHANGED migrators
     ELSE /\ migrators' =
               [migrators EXCEPT
                  ![i].names = @ \cup {name},
                  ![i].migrations =
                     Appended(@, NewMigration(name, comment, statement, args))]
          /\ ret' = Returned("AddMigration", i, "")
  /\ UNCHANGED <<registeredBackends, frames, dbTables, dbSchema, runCount,
                 goroutines>>

\* RepairHash(names...): every name given is (re)marked with the empty hash.
RepairHash(i, ns) ==
  /\ Idle
  /\ migrators[i].live
  /\ migrators' =
       [migrators EXCEPT
          ![i].repair = [k \in DOMAIN @ \cup ns |-> IF k \in ns THEN "" ELSE @[k]]]
  /\ ret' = Returned("RepairHash", i, "")
  /\ UNCHANGED <<registeredBackends, frames, dbTables, dbSchema, runCount,
                 goroutines>>

\* --------------------------------------------------------- Run, RunUnsafe

\* The backend instance a Migrator points to.
BackendOf(i) == registeredBackends[migrators[i].backend]

\* run() leaves through here: Run / RunUnsafe return (m.log, err).
Return(i, err) ==
  ret' = Returned(IF migrators[i].safe THEN "Run" ELSE "RunUnsafe", i, err)

\* Entry of Run (safe = TRUE) and RunUnsafe (safe = FALSE): set the mode and
\* enter run().  A Migrator whose backend is nil cannot run (nil dereference).
StartRun(i, safe) ==
  /\ Idle
  /\ runCount < MaxRuns
  /\ migrators[i].backend # ""
  /\ migrators' = [migrators EXCEPT ![i].safe = safe]
  /\ frames' = [frames EXCEPT ![i] =
                  [NoFrame EXCEPT !.pc = "check",
                                  !.logStart = Len(migrators[i].log)]]
  /\ runCount' = runCount + 1
  /\ UNCHANGED <<registeredBackends, dbTables, dbSchema, ret, goroutines>>

Run(i) == StartRun(i, TRUE)

RunUnsafe(i) == StartRun(i, FALSE)

\* Faulty variant: the existence query never finds the table.
HasMigrationTable_Never(b) == FALSE

\* backend.HasMigrationTable(): the existence query on the backend's handle,
\* for the backend's schema and table (SQLite asks sqlite_master by name).
HasMigrationTable(b) ==
  /\ dbTables[b.db][b.table].exists
  /\ b.type = "SQLite" \/ b.tableSchema = DefaultSchema(b.db)

\* Faulty variant: an error of the existence query is read as "no table".
AfterCheck_ErrorIgnored(b, ok) ==
  IF ok /\ HasMigrationTable(b) THEN "begin" ELSE "create"

\* Where run() goes after `exists, err := m.backend.HasMigrationTable()`:
\* it returns on an error, creates the table when there is none, and goes
\* on to Beginx otherwise.
AfterCheck(b, ok) ==
  IF ~ok THEN "return"
  ELSE IF HasMigrationTable(b) THEN "begin" ELSE "create"

\* run(): the table check.  ok = FALSE is a failing query.
CheckTable(i, ok) ==
  /\ frames[i].pc = "check"
  /\ IF AfterCheck(BackendOf(i), ok) = "return"
     THEN /\ frames' = [frames EXCEPT ![i] = NoFrame]
          /\ Return(i, "the migration table check failed")
     ELSE /\ frames' = [frames EXCEPT ![i].pc = AfterCheck(BackendOf(i), ok)]
          /\ UNCHANGED ret
  /\ UNCHANGED <<registeredBackends, migrators, dbTables, dbSchema, runCount,
                 goroutines>>

\* The CREATE TABLE text of a backend, after nameTable.
CreateTableQuery(b) == "CREATE TABLE " \o b.table \o " /*" \o b.type \o "*/"

LogEntry(name, hash, status, details) ==
  [Name |-> name, Hash |-> hash, Status |-> status, Details |-> details]

\* Faulty variant: the statement is CREATE TABLE IF NOT EXISTS.
Created_IfNotExists(exists, ok) == ok

\* Whether the CREATE TABLE of a backend succeeds: not on a table that is
\* there already, nor when the call fails for another reason (ok = FALSE).
Created(exists, ok) == ok /\ ~exists

\* createMigrationTable(): CREATE TABLE runs on the handle, outside any
\* transaction; it fails when the table is there already or when ok = FALSE.
CreateTable(i, ok) ==
  LET b == BackendOf(i)
      m == migrators[i]
      done == Created(dbTables[b.db][b.table].exists, ok)
      l == LogEntry("create_" \o m.TableName \o "_table",
                    hashQuery(CreateTableQuery(b), <<>>),
                    IF done THEN SUCCESS ELSE ERROR,
                    IF done THEN "created '" \o m.TableName \o "' table"
                    ELSE "create table error")
  IN /\ frames[i].pc = "create"
     /\ migrators' = [migrators EXCEPT ![i].log = Append(@, l)]
     /\ IF done
        THEN /\ dbTables' = [dbTables EXCEPT ![b.db][b.table] =
                               [exists |-> TRUE, rows |-> <<>>]]
             /\ frames' = [frames EXCEPT ![i].pc = "begin", ![i].created = TRUE]
             /\ UNCHANGED ret
        ELSE /\ frames' = [frames EXCEPT ![i] = NoFrame]
             /\ Return(i, "create '" \o m.TableName \o "' table failed")
             /\ UNCHANGED dbTables
     /\ UNCHANGED <<registeredBackends, dbSchema, runCount, goroutines>>

\* m.db.Beginx(); commit := true.
Begin(i, ok) ==
  /\ frames[i].pc = "begin"
  /\ IF ok
     THEN /\ frames' = [frames EXCEPT
                          ![i].pc = "repair",
                          ![i].commit = TRUE,
                          ![i].tx = [state |-> "open", db |-> migrators[i].db,
                                     ops |-> <<>>]]
          /\ UNCHANGED ret
     ELSE /\ frames' = [frames EXCEPT ![i] = NoFrame]
          /\ Return(i, "begin transaction failed")
  /\ UNCHANGED <<registeredBackends, migrators, dbTables, dbSchema, runCount,
                 goroutines>>

\* Faulty variant: the marks keep the hash RepairHash gave them.
MarkedHashes_Stale(m) == m.repair

\* The first loop of repairHashes: every ledger migration whose name is
\* marked gets its current hash as the value to write.
MarkedHashes(m) ==
  [k \in DOMAIN m.repair |->
     IF \E x \in 1..Len(m.migrations) : m.migrations[x].Name = k
     THEN LET x == CHOOSE x \in 1..Len(m.migrations) : m.migrations[x].Name = k
          IN m.migrations[x].hash
     ELSE m.repair[k]]

\* Faulty variant: the error of repairHashes is not looked at.
RepairFailed_Never(good) == FALSE

\* `_, err := tx.Exec(query, hash, name); if err != nil { return err }` and
\* `err = m.repairHashes(tx); if err != nil`: the error of an UPDATE (good =
\* it returned nil) is what repairHashes returns.
RepairFailed(good) == ~good

\* Faulty variant: no entry of the map is skipped.
Skipped_Never(hash) == FALSE

\* backends.RepairHashes: `if hash == "" { continue }`.
Skipped(hash) == hash = ""

\* m.repairHashes(tx) up to the first database call of
\* backends.RepairHashes: nothing happens with an empty repair map;
\* otherwise every marked ledger name gets its hash, and the entries with a
\* non-empty hash are the ones the range loop will send an UPDATE for.
RepairHashes(i) ==
  LET m == migrators[i]
      f == frames[i]
      hashes == MarkedHashes(m)
      names == {k \in DOMAIN hashes : ~Skipped(hashes[k])}
  IN /\ f.pc = "repair"
     /\ migrators' = [migrators EXCEPT ![i].repair = hashes]
     /\ frames' = [frames EXCEPT
                     ![i].todo = names,
                     ![i].pc = IF names = {} THEN "previous" ELSE "update"]
     /\ UNCHANGED <<registeredBackends, dbTables, dbSchema, runCount, ret,
                    goroutines>>

\* The rows `UPDATE .. WHERE name = $2` matches: the committed row of the
\* name, if there is one (the UPDATEs of a run come before its INSERTs, and
\* the uncommitted rows of other transactions are not seen).
Matched(db, table, name) ==
  IF name \in RowNames(dbTables[db][table].rows) THEN {<<table, name>>} ELSE {}

\* An UPDATE takes the lock of the rows it matches and keeps it until the
\* transaction ends: an UPDATE of a row waits while another open
\* transaction holds its lock; it goes on when that transaction has ended,
\* or fails when the database gives up the wait (lock timeout, deadlock).
\* An UPDATE that matched no row holds no lock.
UpdateWaits(i, name) ==
  \E j \in DOMAIN frames \ {i} :
    /\ frames[j].tx.state = "open"
    /\ frames[j].tx.db = frames[i].tx.db
    /\ <<BackendOf(i).table, name>> \in frames[j].locked

\* One iteration of the range loop of backends.RepairHashes that reaches
\* tx.Exec: the UPDATE of one entry not visited yet (a map is ranged over
\* in any order).  It fails on a missing table or when ok = FALSE (a
\* deadlock the database broke included), and the first failure ends the
\* loop and, through repairHashes, the run.
RepairUpdate(i, name, ok) ==
  LET m == migrators[i]
      b == BackendOf(i)
      f == frames[i]
      good == ok /\ dbTables[f.tx.db][b.table].exists
      left == f.todo \ {name}
  IN /\ f.pc = "update"
     /\ name \in f.todo
     /\ ok => ~UpdateWaits(i, name)
     /\ frames' = [frames EXCEPT
          ![i].tx.ops = IF good
                        THEN Append(@, UpdateOp(b.table, m.repair[name], name))
                        ELSE @,
          ![i].commit = IF RepairFailed(good) THEN FALSE ELSE @,
          ![i].err = IF RepairFailed(good) THEN "repair hashes failed" ELSE "",
          ![i].todo = IF RepairFailed(good) THEN {} ELSE left,
          ![i].locked = IF good THEN @ \cup Matched(f.tx.db, b.table, name)
                        ELSE @,
          ![i].pc = IF RepairFailed(good) THEN "finish"
                    ELSE IF left = {} THEN "previous" ELSE "update"]
     /\ UNCHANGED <<registeredBackends, migrators, dbTables, dbSchema,
                    runCount, ret, goroutines>>

RECURSIVE PreviousMap(_, _)

\* backends.QueryPrevious: prev[r.Name] = r.Hash for every row, in order.
PreviousMap(rows, k) ==
  IF k = 0 THEN EmptyMap
  ELSE MapPut(PreviousMap(rows, k - 1), rows[k].name, rows[k].hash)

\* The SELECT of QueryPrevious runs on the backend's handle, not on the
\* transaction: it reads the committed rows.
QueryPrevious(i, ok) ==
  LET b == BackendOf(i)
      t == dbTables[b.db][b.table]
      good == ok /\ t.exists
  IN /\ frames[i].pc = "previous"
     /\ migrators' = [migrators EXCEPT ![i].previous =
                        IF good THEN PreviousMap(t.rows, Len(t.rows)) ELSE @]
     /\ frames' = [frames EXCEPT
                     ![i].commit = IF good THEN @ ELSE FALSE,
                     ![i].err = IF good THEN ""
                                ELSE "get previous migrations failed",
                     ![i].idx = IF good THEN 1 ELSE @,
                     ![i].pc = IF good /\ Len(migrators[i].migrations) > 0
                               THEN "migrate" ELSE "finish"]
     /\ UNCHANGED <<registeredBackends, dbTables, dbSchema, runCount, ret,
                    goroutines>>

\* ------------------------------------------------------- executeMigration

\* Faulty variant: a record of the name is accepted whatever hash it holds.
hashIsValid_AnyHash(m, mig) ==
  IF mig.Name \notin DOMAIN m.previous
  THEN <<mig.hash, TRUE>>
  ELSE <<m.previous[mig.Name], TRUE>>

\* Faulty variant: the repair map is not consulted.
hashIsValid_NoRepair(m, mig) ==
  IF mig.Name \notin DOMAIN m.previous
  THEN <<mig.hash, TRUE>>
  ELSE <<m.previous[mig.Name], m.previous[mig.Name] = mig.hash>>

\* hashIsValid: the stored hash to report, and whether it is accepted.
hashIsValid(m, mig) ==
  IF mig.Name \in DOMAIN m.repair /\ m.repair[mig.Name] = mig.hash
  THEN <<m.repair[mig.Name], TRUE>>
  ELSE IF mig.Name \notin DOMAIN m.previous
       THEN <<mig.hash, TRUE>>
       ELSE <<m.previous[mig.Name], m.previous[mig.Name] = mig.hash>>

\* Faulty variant: a record whose checksum differs does not count as already run.
AlreadyRun_SameHashOnly(m, mig) ==
  mig.Name \in DOMAIN m.previous /\ m.previous[mig.Name] = mig.hash

\* Faulty variant: a migration marked for repair counts as already run.
AlreadyRun_OrMarked(m, mig) ==
  mig.Name \in DOMAIN m.previous \/ mig.Name \in DOMAIN m.repair

\* Whether executeMigration takes the "already run" branch for mig.
AlreadyRun(m, mig) == mig.Name \in DOMAIN m.previous

\* Faulty variant: the loop of run() walks the ledger from its end.
MigrationAt_Reversed(m, idx) == m.migrations[Len(m.migrations) + 1 - idx]

\* The migration the loop of run() hands to executeMigration in its idx-th
\* iteration: `for _, mig := range m.migrations`.
MigrationAt(m, idx) == m.migrations[idx]

\* Faulty variant: an error of executeMigration ends the run with commit still true.
AfterMigration_KeepCommit(f, m, err) ==
  IF err # ""
  THEN [f EXCEPT !.pc = "finish",
                 !.err = "run error on '" \o MigrationAt(m, f.idx).Name \o "'"]
  ELSE [f EXCEPT !.idx = @ + 1,
                 !.pc = IF f.idx < Len(m.migrations) THEN "migrate" ELSE "finish"]

\* The loop of run() after executeMigration returned err for migration idx.
AfterMigration(f, m, err) ==
  IF err # ""
  THEN [f EXCEPT !.commit = FALSE, !.pc = "finish",
                 !.err = "run error on '" \o MigrationAt(m, f.idx).Name \o "'"]
  ELSE [f EXCEPT !.idx = @ + 1,
                 !.pc = IF f.idx < Len(m.migrations) THEN "migrate" ELSE "finish"]

\* Faulty variant: a mismatch is fatal in unsafe mode too.
CheckPrevious_Strict(m, mig) ==
  LET hv == hashIsValid(m, mig)
      d == "hash mismatch DB: '" \o hv[1] \o "' Migration: '" \o mig.hash \o "'"
  IN IF hv[2]
     THEN [Status |-> PREVIOUS, Details |-> "migration already run", err |-> ""]
     ELSE [Status |-> ERROR_HASH, Details |-> d, err |-> mig.Name \o " " \o d]

\* The "already run" branch of executeMigration: the status and details of
\* the log entry and the error returned ("" = nil).
CheckPrevious(m, mig) ==
  LET hv == hashIsValid(m, mig)
      d == "hash mismatch DB: '" \o hv[1] \o "' Migration: '" \o mig.hash \o "'"
  IN IF hv[2]
     THEN [Status |-> PREVIOUS, Details |-> "migration already run", err |-> ""]
     ELSE IF m.safe
          THEN [Status |-> ERROR_HASH, Details |-> d, err |-> mig.Name \o " " \o d]
          ELSE [Status |-> PREVIOUS, Details |-> d, err |-> ""]

\* Faulty variant: an entry of a failed migration is not appended.
Logged_ErrorsDropped(log, entry) ==
  IF entry.Status = ERROR THEN log ELSE Append(log, entry)

\* The deferred function of executeMigration: m.log = append(m.log, mLog).
Logged(log, entry) == Append(log, entry)

\* executeMigration up to and including mig.run(tx): a migration found in
\* m.previous is only checked; a new one has its statement executed in the
\* transaction (ok = FALSE: the statement fails).
ExecuteMigration(i, ok) ==
  LET m == migrators[i]
      f == frames[i]
      mig == MigrationAt(m, f.idx)
      chk == CheckPrevious(m, mig)
  IN /\ f.pc = "migrate"
     /\ IF AlreadyRun(m, mig)
        THEN /\ ok
             /\ migrators' = [migrators EXCEPT ![i].log = Logged(@,
                  LogEntry(mig.Name, mig.hash, chk.Status, chk.Details))]
             /\ frames' = [frames EXCEPT ![i] = AfterMigration(f, m, chk.err)]
        ELSE IF ok
        THEN /\ frames' = [frames EXCEPT
                  ![i].tx.ops = Append(@, ExecOp(mig.Statement, mig.args)),
                  ![i].pc = "insert"]
             /\ UNCHANGED migrators
        ELSE /\ migrators' = [migrators EXCEPT ![i].log = Logged(@,
                  LogEntry(mig.Name, mig.hash, ERROR, "failed: statement error"))]
             /\ frames' = [frames EXCEPT ![i] =
                  AfterMigration(f, m, "statement error")]
     /\ UNCHANGED <<registeredBackends, dbTables, dbSchema, runCount, ret,
                    goroutines>>

\* Faulty variant: mLog keeps the values it was initialised with.
InsertLog_Unset(mig, good) ==
  LogEntry(mig.Name, mig.hash, SUCCESS, "ran migration successfully")

\* mLog of executeMigration after mig.insertRecord(tx, m) returned (good =
\* it returned nil).
InsertLog(mig, good) ==
  IF good
  THEN LogEntry(mig.Name, mig.hash, SUCCESS, "ran migration successfully")
  ELSE LogEntry(mig.Name, mig.hash, ERROR, "record insert failed: insert error")

\* The unique index on name makes an INSERT wait while another open
\* transaction holds an uncommitted row of the same name; it goes on (and
\* fails, if the row was committed) when that transaction has ended, or
\* fails when the database gives up the wait (lock timeout, deadlock).
InsertWaits(i, name) ==
  \E j \in DOMAIN frames \ {i} :
    /\ frames[j].tx.state = "open"
    /\ \E k \in 1..Len(frames[j].tx.ops) :
         /\ frames[j].tx.ops[k].op = "insert"
         /\ frames[j].tx.ops[k].table = BackendOf(i).table
         /\ frames[j].tx.ops[k].name = name

\* Faulty variant: the table has no unique index on name.
Inserted_NoUnique(seen, name, ok) == ok /\ seen.exists

\* Whether the INSERT of a record succeeds on the table as the transaction
\* sees it: the table is there and holds no row of the name (unique index /
\* UNIQUE column of CreateMigrationTable).
Inserted(seen, name, ok) ==
  ok /\ seen.exists /\ name \notin RowNames(seen.rows)

\* The rest of executeMigration: mig.insertRecord(tx, m).  The INSERT names
\* the backend's table and runs in the transaction; it fails on a second row
\* of the same name (unique index on name), on a missing table, or when
\* ok = FALSE; while it would wait for another transaction it does not
\* succeed, but the database may make it fail.
InsertRecord(i, ok) ==
  LET m == migrators[i]
      f == frames[i]
      b == BackendOf(i)
      mig == MigrationAt(m, f.idx)
      seen == ApplyOps(dbTables[f.tx.db], f.tx.ops, 1)[b.table]
      good == Inserted(seen, mig.Name, ok)
  IN /\ f.pc = "insert"
     /\ ok => ~InsertWaits(i, mig.Name)
     /\ migrators' = [migrators EXCEPT ![i].log = Logged(@, InsertLog(mig, good))]
     /\ frames' = [frames EXCEPT ![i] =
          AfterMigration(
            IF good
            THEN [f EXCEPT !.tx.ops =
                    Append(@, InsertOp(b.table, mig.Name, mig.hash, mig.Comment))]
            ELSE f,
            m, IF good THEN "" ELSE "insert error")]
     /\ UNCHANGED <<registeredBackends, dbTables, dbSchema, runCount, ret,
                    goroutines>>

\* ------------------------------------------------- the deferred function

\* Faulty variant: the deferred function calls Commit on every exit path.
Deferred_AlwaysCommit(f) == "Commit"

\* The call the deferred function of run() makes on the transaction:
\* `if commit { tx.Commit(); return }; tx.Rollback()`.
Deferred(f) == IF f.commit THEN "Commit" ELSE "Rollback"

\* Faulty variant: the deferred function commits whatever the run decided.
Committed_Always(f, ok) == ok

\* Whether the deferred function persists the transaction: it calls
\* tx.Commit() only while commit is true, and a Commit that fails persists
\* nothing.
Committed(f, ok) == Deferred(f) = "Commit" /\ ok

\* Faulty variant: the rollback also undoes the CREATE TABLE of this run.
RolledBack_DropsCreated(tables, f) ==
  IF f.created
  THEN [tables EXCEPT ![f.tx.db] = [t \in DOMAIN @ |-> NoTable]]
  ELSE tables

\* The committed tables after tx.Rollback() (or a Commit that failed): as
\* they were, the table that createMigrationTable made on the handle,
\* outside the transaction, included.
RolledBack(tables, f) == tables

\* The deferred function of run(), then the return of Run / RunUnsafe:
\* tx.Commit() when commit is still true (its error is dropped; ok = FALSE is
\* a Commit that fails and persists nothing), tx.Rollback() otherwise.
Finish(i, ok) ==
  LET f == frames[i]
      committed == Committed(f, ok)
  IN /\ f.pc = "finish"
     /\ ~f.commit => ok
     /\ dbTables' = IF committed
                    THEN [dbTables EXCEPT ![f.tx.db] = ApplyOps(@, f.tx.ops, 1)]
                    ELSE RolledBack(dbTables, f)
     /\ dbSchema' = IF committed
                    THEN [dbSchema EXCEPT ![f.tx.db] = @ \o ExecutedIn(f.tx.ops)]
                    ELSE dbSchema
     /\ frames' = [frames EXCEPT ![i] = NoFrame]
     /\ Return(i, f.err)
     /\ UNCHANGED <<registeredBackends, migrators, runCount, goroutines>>

\* ------------------------------------------------------------------ Next

Next ==
  \/ \E i \in 1..MaxMigrators, db \in DBs, t \in TableNames, s \in Schemas :
       New(i, db, t, s)
  \/ \E i \in 1..MaxMigrators, n \in Names, c \in Comments, in \in Inputs :
       AddMigration(i, n, c, in[1], in[2])
  \/ \E i \in 1..MaxMigrators, ns \in (SUBSET Names) \ {{}} : RepairHash(i, ns)
  \/ \E i \in 1..MaxMigrators : Run(i)
  \/ \E i \in 1..MaxMigrators : RunUnsafe(i)
  \/ \E i \in 1..MaxMigrators, ok \in BOOLEAN : CheckTable(i, ok)
  \/ \E i \in 1..MaxMigrators, ok \in BOOLEAN : CreateTable(i, ok)
  \/ \E i \in 1..MaxMigrators, ok \in BOOLEAN : Begin(i, ok)
  \/ \E i \in 1..MaxMigrators : RepairHashes(i)
  \/ \E i \in 1..MaxMigrators, n \in Names, ok \in BOOLEAN :
       RepairUpdate(i, n, ok)
  \/ \E i \in 1..MaxMigrators, ok \in BOOLEAN : ExecuteMigration(i, ok)
  \/ \E i \in 1..MaxMigrators, ok \in BOOLEAN : QueryPrevious(i, ok)
  \/ \E i \in 1..MaxMigrators, ok \in BOOLEAN : InsertRecord(i, ok)
  \/ \E i \in 1..MaxMigrators, ok \in BOOLEAN : Finish(i, ok)

Spec == Init /\ [][Next]_vars

\* ------------------------------------------- registry and backend bindings

\* Backend instances a program registers: fresh values of the two struct
\* types of the backends package that differ in Setup.
CustomBackends == {ZeroBackend("Postgres"), ZeroBackend("SQLite")}

\* Several Migrator variables, several tracking table names, a fresh
\* database; every database call succeeds.
InitBackends ==
  /\ registeredBackends =
       [key \in {"mysql", "postgres", "sqlite"} |->
          ZeroBackend(CASE key = "mysql" -> "MySQL"
                        [] key = "postgres" -> "Postgres"
                        [] OTHER -> "SQLite")]
  /\ migrators = [i \in 1..MaxShared |-> NoMigrator]
  /\ frames = [i \in 1..MaxShared |-> NoFrame]
  /\ runCount = 0
  /\ ret = Returned("init", 0, "")
  /\ goroutines = [g \in 1..MaxGoroutines |-> NoCall]
  /\ dbTables = [d \in DBs |-> [t \in SharedTables |-> NoTable]]
  /\ dbSchema = [d \in DBs |-> <<>>]

\* The registry and the bindings, without runs.
NextRegistry ==
  \/ \E key \in RegisterKeys, b \in CustomBackends : RegisterBackend(key, b)
  \/ \E d \in Drivers : BackendTypeCall(d)
  \/ \E i \in 1..MaxShared, db \in DBs, t \in SharedTables, s \in Schemas :
       New(i, db, t, s)
  \/ \E i \in 1..MaxShared, key \in UseKeys : UseBackend(i, key)

SpecRegistry == InitBackends /\ [][NextRegistry]_vars

\* Several Migrators that select built-in backends and run.
NextBackends ==
  \/ \E i \in 1..MaxShared, db \in DBs, t \in SharedTables, s \in Schemas :
       New(i, db, t, s)
  \/ \E i \in 1..MaxShared, key \in {"postgres", "sqlite"} : UseBackend(i, key)
  \/ \E i \in 1..MaxShared : AddMigration(i, "m_b", "c", "S1", <<>>)
  \/ \E i \in 1..MaxShared : Run(i)
  \/ \E i \in 1..MaxShared : CheckTable(i, TRUE)
  \/ \E i \in 1..MaxShared : CreateTable(i, TRUE)
  \/ \E i \in 1..MaxShared : Begin(i, TRUE)
  \/ \E i \in 1..MaxShared : RepairHashes(i)
  \/ \E i \in 1..MaxShared : QueryPrevious(i, TRUE)
  \/ \E i \in 1..MaxShared : ExecuteMigration(i, TRUE)
  \/ \E i \in 1..MaxShared : InsertRecord(i, TRUE)
  \/ \E i \in 1..MaxShared : Finish(i, TRUE)

SpecBackends == InitBackends /\ [][NextBackends]_vars

\* Every call a program makes on a Migrator, UseBackend (with a registered
\* key of each kind and with an unregistered one) included; of the database
\* calls of a run, the migration statements may fail.
LedgerKeys == {"postgres", "sqlite", "oracle"}

NextLedger ==
  \/ \E i \in 1..MaxMigrators, db \in DBs, t \in TableNames, s \in Schemas :
       New(i, db, t, s)
  \/ \E i \in 1..MaxMigrators, key \in LedgerKeys : UseBackend(i, key)
  \/ \E i \in 1..MaxMigrators, n \in Names, c \in Comments, in \in Inputs :
       AddMigration(i, n, c, in[1], in[2])
  \/ \E i \in 1..MaxMigrators, ns \in (SUBSET Names) \ {{}} : RepairHash(i, ns)
  \/ \E i \in 1..MaxMigrators : Run(i)
  \/ \E i \in 1..MaxMigrators : RunUnsafe(i)
  \/ \E i \in 1..MaxMigrators : CheckTable(i, TRUE)
  \/ \E i \in 1..MaxMigrators : CreateTable(i, TRUE)
  \/ \E i \in 1..MaxMigrators : Begin(i, TRUE)
  \/ \E i \in 1..MaxMigrators : RepairHashes(i)
  \/ \E i \in 1..MaxMigrators, n \in Names : RepairUpdate(i, n, TRUE)
  \/ \E i \in 1..MaxMigrators : QueryPrevious(i, TRUE)
  \/ \E i \in 1..MaxMigrators, ok \in BOOLEAN : ExecuteMigration(i, ok)
  \/ \E i \in 1..MaxMigrators : InsertRecord(i, TRUE)
  \/ \E i \in 1..MaxMigrators : Finish(i, TRUE)

SpecLedger == Init /\ [][NextLedger]_vars

\* New on handles of every kind of driver, with custom registrations.
NextNew ==
  \/ \E key \in NewKeys, b \in CustomBackends : RegisterBackend(key, b)
  \/ \E i \in 1..MaxShared, db \in Handles, t \in TableNames, s \in Schemas :
       New(i, db, t, s)

SpecNew == InitBackends /\ [][NextNew]_vars

\* ------------------------------------------------------ concurrent runs

\* Number of calls of Run made by Migrators that run concurrently.
MaxRaceRuns == 3

\* Run called on Migrator i while runs of other Migrators may be in
\* progress (another goroutine or process, no lock is taken).
RunConcurrently(i) ==
  /\ frames[i].pc = "idle"
  /\ runCount < MaxRaceRuns
  /\ migrators[i].backend # ""
  /\ migrators' = [migrators EXCEPT ![i].safe = TRUE]
  /\ frames' = [frames EXCEPT ![i] =
                  [NoFrame EXCEPT !.pc = "check",
                                  !.logStart = Len(migrators[i].log)]]
  /\ runCount' = runCount + 1
  /\ UNCHANGED <<registeredBackends, dbTables, dbSchema, ret, goroutines>>

\* Several Migrators for one tracking table of one database, each with the
\* same migrations (added in either order) and repairs, set up before the
\* first run, then run without coordination; the UPDATEs and INSERTs of a
\* run may fail (a wait the database gives up included), the other database
\* calls fail only by what the other Migrator did.
NextRace ==
  \/ \E i \in 1..MaxShared :
       runCount = 0 /\ New(i, "db", "migrations", "public")
  \/ \E i \in 1..MaxShared :
       runCount = 0 /\ AddMigration(i, "m_b", "c", "S1", <<>>)
  \/ \E i \in 1..MaxShared :
       runCount = 0 /\ AddMigration(i, "m_a", "c", "S2", <<>>)
  \/ \E i \in 1..MaxShared :
       runCount = 0 /\ RepairHash(i, {"m_a", "m_b"})
  \/ \E i \in 1..MaxShared : RunConcurrently(i)
  \/ \E i \in 1..MaxShared : CheckTable(i, TRUE)
  \/ \E i \in 1..MaxShared : CreateTable(i, TRUE)
  \/ \E i \in 1..MaxShared : Begin(i, TRUE)
  \/ \E i \in 1..MaxShared : RepairHashes(i)
  \/ \E i \in 1..MaxShared, n \in {"m_a", "m_b"}, ok \in BOOLEAN :
       RepairUpdate(i, n, ok)
  \/ \E i \in 1..MaxShared : QueryPrevious(i, TRUE)
  \/ \E i \in 1..MaxShared : ExecuteMigration(i, TRUE)
  \/ \E i \in 1..MaxShared, ok \in BOOLEAN : InsertRecord(i, ok)
  \/ \E i \in 1..MaxShared : Finish(i, TRUE)

SpecRace == InitBackends /\ [][NextRace]_vars

\* ------------------------------------------------ concurrent registration

NextConcurrent ==
  \/ \E g \in 1..MaxGoroutines, key \in RegisterKeys, b \in CustomBackends :
       RegisterCheck(g, key, b)
  \/ \E g \in 1..MaxGoroutines : RegisterWrite(g)
  \/ \E g \in 1..MaxGoroutines : RegisterCrash(g)

SpecConcurrent == Init /\ [][NextConcurrent]_vars

\* ======================================================================
\* Properties
\* ======================================================================

\* The tracking table a Migrator was created for, as committed.
TrackingRows(i) == dbTables[migrators[i].db][migrators[i].TableName].rows

TrackingRowsAfter(i) == dbTables'[migrators[i].db][migrators[i].TableName].rows

\* The stored checksums of a name (one per row of that name).
StoredHashes(rows, name) ==
  {rows[k].hash : k \in {x \in 1..Len(rows) : rows[x].name = name}}

Ledger(i) == migrators[i].migrations

LedgerNames(i) == {Ledger(i)[k].Name : k \in 1..Len(Ledger(i))}

\* The step in which run() of Migrator i returns to the caller of Run /
\* RunUnsafe, and the one among them that runs the deferred function.
Returning(i) == frames[i].pc # "idle" /\ frames'[i].pc = "idle"

Finishing(i) == frames[i].pc = "finish" /\ frames'[i].pc = "idle"

\* The number of ledger migrations for which executeMigration has returned
\* in the current run, and the log entries it appended for them.
Attempted(i) ==
  LET f == frames[i]
  IN CASE f.pc \in {"migrate", "insert"} -> f.idx - 1
       [] f.pc = "finish" /\ f.idx > 0 ->
            IF f.err # "" THEN f.idx ELSE f.idx - 1
       [] OTHER -> 0

RunLog(i) ==
  SubSeq(migrators[i].log, Len(migrators[i].log) - Attempted(i) + 1,
         Len(migrators[i].log))

\* The migrations of the ledger that have no Applied Record.
Pending(i) == LedgerNames(i) \ RowNames(TrackingRows(i))

InsertedIn(ops) == {ops[k].name : k \in {x \in 1..Len(ops) : ops[x].op = "insert"}}

\* C1 (as claimed): all-or-nothing run.  When a run returns, the committed
\* tracking table holds every migration that was pending when the run began
\* if the run returned no error, and none of them if it returned an error.
\* (In a single-threaded program the committed rows do not change between
\* the start of a run and the step that returns.)
C1_AllOrNothing ==
  [][\A i \in 1..MaxMigrators :
       Returning(i) =>
         IF ret'.err = ""
         THEN Pending(i) \subseteq RowNames(TrackingRowsAfter(i))
         ELSE Pending(i) \cap RowNames(TrackingRowsAfter(i)) = {}]_vars

\* C1, the part that holds: a run never leaves some but not all of its
\* pending migrations recorded, and records none when it returns an error.
C1_Atomic ==
  [][\A i \in 1..MaxMigrators :
       Returning(i) =>
         /\ \/ Pending(i) \subseteq RowNames(TrackingRowsAfter(i))
            \/ Pending(i) \cap RowNames(TrackingRowsAfter(i)) = {}
         /\ ret'.err # "" =>
              Pending(i) \cap RowNames(TrackingRowsAfter(i)) = {}]_vars

\* ---------------------------------------------------------------- C2

NoDuplicateRows(rows) ==
  \A a, b \in 1..Len(rows) : a # b => rows[a].name # rows[b].name

\* The step of run() in which the statement of a migration is executed.
ExecutesStatement(i) ==
  /\ frames[i].pc = "migrate"
  /\ Len(ExecutedIn(frames'[i].tx.ops)) > Len(ExecutedIn(frames[i].tx.ops))

\* C2: at-most-once application.  In every run, a statement is executed only
\* for a migration whose name has no Applied Record (whatever checksum a
\* record holds), and no tracking table ever holds two records of one name.
C2_AtMostOnce ==
  [][/\ \A i \in 1..MaxMigrators :
          ExecutesStatement(i) =>
            Ledger(i)[frames[i].idx].Name \notin RowNames(TrackingRows(i))
     /\ \A d \in DBs, t \in TableNames : NoDuplicateRows(dbTables'[d][t].rows)
    ]_vars

\* C2 witness: a run is about to commit in which a migration whose record
\* holds a different checksum was passed over while another migration of the
\* same ledger had its statement executed.
C2_Witness ==
  \E i \in 1..MaxMigrators :
    /\ frames[i].pc = "finish"
    /\ frames[i].commit
    /\ Len(ExecutedIn(frames[i].tx.ops)) = 1
    /\ \E k \in 1..Len(Ledger(i)) :
         /\ Ledger(i)[k].Name \in RowNames(TrackingRows(i))
         /\ Ledger(i)[k].hash \notin StoredHashes(TrackingRows(i), Ledger(i)[k].Name)

\* ---------------------------------------------------------------- C3

\* strings.Contains(s, sub)
Contains(s, sub) ==
  \E k \in 1..(Len(s) - Len(sub) + 1) : SubSeq(s, k, k + Len(sub) - 1) = sub

\* The run that is finishing attempted the whole ledger and logged every
\* migration, in order, with the given status.
LoggedAll(i, status) ==
  /\ Len(RunLog(i)) = Len(Ledger(i))
  /\ \A k \in 1..Len(Ledger(i)) :
       /\ RunLog(i)[k].Name = Ledger(i)[k].Name
       /\ RunLog(i)[k].Status = status

\* C3: idempotence, for runs in which no database call fails.  A run on a
\* tracking table without rows executes every statement of the ledger, logs
\* every migration as applied and commits one record per migration, with
\* the migration's checksum.  A run that finds exactly these records
\* executes no statement, inserts no record, changes no row and logs every
\* migration as already applied with the plain "already run" detail; it
\* cannot fail on a migration.
C3_Idempotence ==
  [][\A i \in 1..MaxMigrators :
       /\ (Finish(i, TRUE) /\ frames[i].err = "" /\ TrackingRows(i) = <<>>) =>
            /\ LoggedAll(i, SUCCESS)
            /\ ExecutedIn(frames[i].tx.ops) = EffectsOf(Ledger(i))
            /\ TrackingRowsAfter(i) = RowsOf(Ledger(i))
       /\ (Finishing(i) /\ Ledger(i) # <<>>
             /\ TrackingRows(i) = RowsOf(Ledger(i))) =>
            /\ ExecutedIn(frames[i].tx.ops) = <<>>
            /\ InsertedIn(frames[i].tx.ops) = {}
            /\ TrackingRowsAfter(i) = TrackingRows(i)
            /\ dbSchema' = dbSchema
            /\ ~Contains(frames[i].err, "run error")
            /\ frames[i].err = "" =>
                 /\ LoggedAll(i, PREVIOUS)
                 /\ \A k \in 1..Len(RunLog(i)) :
                      RunLog(i)[k].Details = "migration already run"
    ]_vars

\* C3 witness: one Migrator, whose log shows that it applied both
\* migrations of its ledger in an earlier run, is finishing a second run
\* that found both already applied.
C3_Witness ==
  \E i \in 1..MaxMigrators :
    /\ frames[i].pc = "finish"
    /\ frames[i].err = ""
    /\ Len(Ledger(i)) = 2
    /\ TrackingRows(i) = RowsOf(Ledger(i))
    /\ dbSchema[migrators[i].db] = EffectsOf(Ledger(i))
    /\ LoggedAll(i, PREVIOUS)
    /\ \A k \in 1..2 :
         \E x \in 1..Len(migrators[i].log) :
           /\ migrators[i].log[x].Name = Ledger(i)[k].Name
           /\ migrators[i].log[x].Status = SUCCESS

\* ------------------------------------------------------------- C4, C5

\* The ledger positions whose name has an Applied Record with a checksum
\* other than the migration's.
Drifted(i) ==
  {k \in 1..Len(Ledger(i)) :
     /\ Ledger(i)[k].Name \in RowNames(TrackingRows(i))
     /\ Ledger(i)[k].hash \notin StoredHashes(TrackingRows(i), Ledger(i)[k].Name)}

RepairScheduled(i, k) == Ledger(i)[k].Name \in DOMAIN migrators[i].repair

LastLog(i) == migrators'[i].log[Len(migrators'[i].log)]

\* C4 (as claimed): a safe run on a ledger with a drifted migration M that
\* is not scheduled for repair returns an error, the last entry of the
\* returned log is M's entry with status ERROR_HASH, and nothing after M is
\* attempted.
C4_SafeDrift ==
  [][\A i \in 1..MaxMigrators :
       (Returning(i) /\ migrators[i].safe) =>
         \A k \in Drifted(i) :
           ~RepairScheduled(i, k) =>
             /\ ret'.err # ""
             /\ Attempted(i) = k
             /\ Len(migrators'[i].log) > 0
             /\ LastLog(i).Name = Ledger(i)[k].Name
             /\ LastLog(i).Status = ERROR_HASH
    ]_vars

\* C4 (amended): such a run always returns an error; if the run reaches M
\* (no database call fails and no migration added before M aborts the run),
\* the last log entry is M's, with status ERROR_HASH, and no migration added
\* after M is attempted.
C4_SafeDriftReached ==
  [][\A i \in 1..MaxMigrators :
       (Returning(i) /\ migrators[i].safe) =>
         \A k \in Drifted(i) :
           ~RepairScheduled(i, k) =>
             /\ ret'.err # ""
             /\ Attempted(i) >= k =>
                  /\ Attempted(i) = k
                  /\ LastLog(i).Name = Ledger(i)[k].Name
                  /\ LastLog(i).Status = ERROR_HASH
    ]_vars

\* C4 witness: a safe run stopped at a drifted migration that is followed in
\* the ledger by another migration.
C4_Witness ==
  \E i \in 1..MaxMigrators :
    /\ frames[i].pc = "finish"
    /\ migrators[i].safe
    /\ \E k \in Drifted(i) :
         /\ ~RepairScheduled(i, k)
         /\ Attempted(i) = k
         /\ k < Len(Ledger(i))
         /\ RunLog(i)[k].Status = ERROR_HASH

\* C5 (as claimed): an unsafe run on a ledger with a drifted migration M
\* records M as PREVIOUS with a "hash mismatch" detail, does not fail on M,
\* leaves M's stored checksum as it was and goes on to the next migration.
C5_UnsafeDrift ==
  [][\A i \in 1..MaxMigrators :
       (Returning(i) /\ ~migrators[i].safe) =>
         \A k \in Drifted(i) :
           /\ Attempted(i) >= k
           /\ RunLog(i)[k].Status = PREVIOUS
           /\ Contains(RunLog(i)[k].Details, "hash mismatch")
           /\ Attempted(i) > k \/ (k = Len(Ledger(i)) /\ frames[i].err = "")
           /\ StoredHashes(TrackingRowsAfter(i), Ledger(i)[k].Name)
                = StoredHashes(TrackingRows(i), Ledger(i)[k].Name)
    ]_vars

\* C5 (amended): the same for a drifted migration M that is not scheduled
\* for repair, in an unsafe run that reaches M.
C5_UnsafeDriftNoRepair ==
  [][\A i \in 1..MaxMigrators :
       (Returning(i) /\ ~migrators[i].safe) =>
         \A k \in Drifted(i) :
           ~RepairScheduled(i, k) =>
             /\ StoredHashes(TrackingRowsAfter(i), Ledger(i)[k].Name)
                  = StoredHashes(TrackingRows(i), Ledger(i)[k].Name)
             /\ Attempted(i) >= k =>
                  /\ RunLog(i)[k].Status = PREVIOUS
                  /\ Contains(RunLog(i)[k].Details, "hash mismatch")
                  /\ Attempted(i) > k \/ (k = Len(Ledger(i)) /\ frames[i].err = "")
    ]_vars

\* C5 witness: an unsafe run passed a drifted migration, not scheduled for
\* repair, and applied the migration added after it.
C5_Witness ==
  \E i \in 1..MaxMigrators :
    /\ frames[i].pc = "finish"
    /\ ~migrators[i].safe
    /\ frames[i].err = ""
    /\ \E k \in Drifted(i) :
         /\ ~RepairScheduled(i, k)
         /\ k < Len(Ledger(i))
         /\ RunLog(i)[k].Status = PREVIOUS
         /\ RunLog(i)[k + 1].Status = SUCCESS

\* ---------------------------------------------------------------- C6

\* The run that is finishing stopped at a checksum mismatch in safe mode.
StoppedAtMismatch(i) ==
  /\ Attempted(i) > 0
  /\ RunLog(i)[Attempted(i)].Status = ERROR_HASH

\* C6: when a safe run stops at a checksum mismatch, the run returns an
\* error and the migrations it executed and recorded before the mismatch
\* have no Applied Record afterwards: the tracking table and the schema are
\* what they were before the run.
C6_MismatchRollsBack ==
  [][\A i \in 1..MaxMigrators :
       (Finishing(i) /\ StoppedAtMismatch(i)) =>
         /\ ret'.err # ""
         /\ InsertedIn(frames[i].tx.ops) \cap RowNames(TrackingRowsAfter(i)) = {}
         /\ TrackingRowsAfter(i) = TrackingRows(i)
         /\ dbSchema' = dbSchema
    ]_vars

\* C6 witness: a safe run executed and recorded a new migration and then
\* stopped at a mismatching one.
C6_Witness ==
  \E i \in 1..MaxMigrators :
    /\ frames[i].pc = "finish"
    /\ migrators[i].safe
    /\ StoppedAtMismatch(i)
    /\ InsertedIn(frames[i].tx.ops) # {}
    /\ ExecutedIn(frames[i].tx.ops) # <<>>

\* ---------------------------------------------------------------- C7

\* C7: repair.  When a run commits, every migration of the ledger whose name
\* was given to RepairHash has one Applied Record, holding the checksum of
\* the migration's current statement and arguments.  In a safe run, a
\* migration whose Applied Record holds its current checksum is logged as
\* already applied with no mismatch detail, and the run does not fail on it.
C7_Repair ==
  [][\A i \in 1..MaxMigrators :
       /\ (Finish(i, TRUE) /\ frames[i].commit) =>
            \A k \in 1..Len(Ledger(i)) :
              RepairScheduled(i, k) =>
                StoredHashes(TrackingRowsAfter(i), Ledger(i)[k].Name) =
                  {hashQuery(Ledger(i)[k].Statement, <<Slice(Ledger(i)[k].args)>>)}
       /\ (Finishing(i) /\ migrators[i].safe) =>
            \A k \in 1..Len(Ledger(i)) :
              (/\ StoredHashes(TrackingRows(i), Ledger(i)[k].Name) = {Ledger(i)[k].hash}
               /\ Attempted(i) >= k) =>
                 /\ RunLog(i)[k].Status = PREVIOUS
                 /\ RunLog(i)[k].Details = "migration already run"
                 /\ Attempted(i) = k => (k = Len(Ledger(i)) /\ frames[i].err = "")
    ]_vars

\* C7 witness: a Migrator that never called RepairHash finishes a safe run
\* without error, having found its migration M already applied, although
\* the database executed another statement under M's name and never M's
\* current one: the stored checksum was repaired by an earlier run.
C7_Witness ==
  \E i \in 1..MaxMigrators :
    /\ frames[i].pc = "finish"
    /\ migrators[i].safe
    /\ frames[i].err = ""
    /\ migrators[i].repair = EmptyMap
    /\ Len(Ledger(i)) = 1
    /\ LoggedAll(i, PREVIOUS)
    /\ StoredHashes(TrackingRows(i), Ledger(i)[1].Name) = {Ledger(i)[1].hash}
    /\ dbSchema[migrators[i].db] # <<>>
    /\ \A x \in 1..Len(dbSchema[migrators[i].db]) :
         dbSchema[migrators[i].db][x] # ExecOp(Ledger(i)[1].Statement, Ledger(i)[1].args)

\* ---------------------------------------------------------------- C8

UpdatedIn(ops) == {k \in 1..Len(ops) : ops[k].op = "update"}

\* C8: a run that returns an error leaves every stored checksum as it was
\* before the run, whatever repairs its transaction had written.
C8_RepairsRolledBack ==
  [][\A i \in 1..MaxMigrators :
       (Finishing(i) /\ frames[i].err # "") =>
         /\ ret'.err # ""
         /\ \A d \in DBs, t \in TableNames, n \in Names :
              StoredHashes(dbTables'[d][t].rows, n) = StoredHashes(dbTables[d][t].rows, n)
    ]_vars

\* C8 witness: a run aborts after the repair step, on a migration, with a
\* repair in its transaction that would change a stored checksum.
C8_Witness ==
  \E i \in 1..MaxMigrators :
    /\ frames[i].pc = "finish"
    /\ Contains(frames[i].err, "run error")
    /\ \E k \in UpdatedIn(frames[i].tx.ops) :
         LET o == frames[i].tx.ops[k]
         IN /\ o.name \in RowNames(TrackingRows(i))
            /\ o.hash \notin StoredHashes(TrackingRows(i), o.name)

\* ---------------------------------------------------------------- C9

NoDuplicateNames(migs) ==
  \A a, b \in 1..Len(migs) : migs[a].Name = migs[b].Name => a = b

\* C9: name uniqueness.  AddMigration with a name already added to the
\* Migrator returns an error and changes nothing; with a new name it appends
\* one migration and returns no error; the ordered list never holds two
\* migrations of one name.
C9_NameUniqueness ==
  [][\A i \in 1..MaxMigrators :
       /\ NoDuplicateNames(migrators'[i].migrations)
       /\ \A n \in Names, c \in Comments, in \in Inputs :
            AddMigration(i, n, c, in[1], in[2]) =>
              IF n \in LedgerNames(i)
              THEN /\ ret'.err # ""
                   /\ migrators'[i] = migrators[i]
              ELSE /\ ret'.err = ""
                   /\ Len(migrators'[i].migrations) = Len(Ledger(i)) + 1
    ]_vars

\* C9 witness: AddMigration has just refused a name that the ledger holds,
\* for a ledger of two migrations.
C9_Witness ==
  \E i \in 1..MaxMigrators :
    /\ ret.op = "AddMigration"
    /\ ret.m = i
    /\ ret.err # ""
    /\ Len(Ledger(i)) = 2
    /\ NoDuplicateNames(Ledger(i))

\* --------------------------------------------------------------- C10

\* The statements a run has executed when it has handled the first n
\* migrations of the ledger: those of the migrations without a record.
RECURSIVE ExecutedUpTo(_, _)

ExecutedUpTo(i, n) ==
  IF n = 0 THEN <<>>
  ELSE IF Ledger(i)[n].Name \in DOMAIN migrators[i].previous
       THEN ExecutedUpTo(i, n - 1)
       ELSE Append(ExecutedUpTo(i, n - 1),
                   ExecOp(Ledger(i)[n].Statement, Ledger(i)[n].args))

\* C10: ordering.  At every point of a run, the entries the run has appended
\* to the log are those of the first migrations of the ledger, in the order
\* they were added, and the statements executed are those of the new
\* migrations among them, in that order.
C10_Ordering ==
  \A i \in 1..MaxMigrators :
    /\ Attempted(i) <= Len(migrators[i].log)
    /\ \A k \in 1..Attempted(i) : RunLog(i)[k].Name = Ledger(i)[k].Name
    /\ frames[i].pc = "migrate" =>
         ExecutedIn(frames[i].tx.ops) = ExecutedUpTo(i, frames[i].idx - 1)
    /\ frames[i].pc = "insert" =>
         ExecutedIn(frames[i].tx.ops) = ExecutedUpTo(i, frames[i].idx)

\* C10 witness: a run applied two migrations that were added against the
\* alphabetical order of their names.
C10_Witness ==
  \E i \in 1..MaxMigrators :
    /\ frames[i].pc = "finish"
    /\ frames[i].err = ""
    /\ Len(Ledger(i)) = 2
    /\ Ledger(i)[1].Name = "m_b"
    /\ Ledger(i)[2].Name = "m_a"
    /\ LoggedAll(i, SUCCESS)
    /\ Len(ExecutedIn(frames[i].tx.ops)) = 2

\* --------------------------------------------------------- C11, C12

SyntheticName(i) == "create_" \o migrators[i].TableName \o "_table"

\* The tracking table was created by the run that is returning.
CreatedInRun(i) ==
  \/ frames[i].created
  \/ /\ frames[i].pc = "create"
     /\ dbTables'[BackendOf(i).db][BackendOf(i).table].exists

\* createMigrationTable was called by the run that is returning.
CreationAttempted(i) == frames[i].created \/ frames[i].pc = "create"

\* The log returned by the first run of a Migrator holds n leading synthetic
\* entries followed by one entry per migration attempted, in ledger order.
Accounted(i, n) ==
  LET log == migrators'[i].log
  IN /\ Len(log) = n + Attempted(i)
     /\ \A k \in 1..n : log[k].Name = SyntheticName(i)
     /\ \A k \in 1..Attempted(i) : log[n + k].Name = Ledger(i)[k].Name

\* C11 (as claimed): the log returned by a run on a newly created Migrator
\* holds exactly one entry per migration attempted, preceded by one
\* synthetic entry if and only if the run created the tracking table.
C11_FullAccounting ==
  [][\A i \in 1..MaxMigrators :
       (Returning(i) /\ frames[i].logStart = 0) =>
         Accounted(i, IF CreatedInRun(i) THEN 1 ELSE 0)
    ]_vars

\* C11 (amended): the synthetic entry is there if and only if the run
\* attempted to create the tracking table; its status is SUCCESS if the
\* table was created and ERROR if the creation failed, in which case it is
\* the only entry.
C11_AccountingOfAttempts ==
  [][\A i \in 1..MaxMigrators :
       (Returning(i) /\ frames[i].logStart = 0) =>
         /\ Accounted(i, IF CreationAttempted(i) THEN 1 ELSE 0)
         /\ CreationAttempted(i) =>
              /\ migrators'[i].log[1].Status \in {SUCCESS, ERROR}
              /\ migrators'[i].log[1].Status = SUCCESS <=> CreatedInRun(i)
              /\ migrators'[i].log[1].Status = ERROR =>
                   Len(migrators'[i].log) = 1
    ]_vars

\* C11 witness: the first run of a Migrator created the tracking table and
\* applied both migrations of its ledger: three entries.
C11_Witness ==
  \E i \in 1..MaxMigrators :
    /\ frames[i].pc = "finish"
    /\ frames[i].logStart = 0
    /\ frames[i].created
    /\ frames[i].err = ""
    /\ Len(Ledger(i)) = 2
    /\ Len(migrators[i].log) = 3
    /\ LoggedAll(i, SUCCESS)

\* C12 (as claimed): the log returned by a call of Run or RunUnsafe holds no
\* entry that was appended before the call began.
C12_PerRunLog ==
  [][\A i \in 1..MaxMigrators :
       Returning(i) =>
         SubSeq(migrators'[i].log, 1, frames[i].logStart) = <<>>
    ]_vars

\* What the code does instead: every call returns the log of the Migrator
\* since New, the entries of earlier calls first and unchanged.
C12_CumulativeLog ==
  [][\A i \in 1..MaxMigrators :
       frames[i].pc # "idle" =>
         /\ frames[i].logStart <= Len(migrators[i].log)
         /\ Len(migrators[i].log) <= Len(migrators'[i].log)
         /\ SubSeq(migrators'[i].log, 1, Len(migrators[i].log)) = migrators[i].log
    ]_vars

\* --------------------------------------------------------------- C13

\* C13: RegisterBackend with a bound key returns an error and leaves the
\* registry as it is; with an unbound key it returns no error, binds the key
\* to the backend given and changes no other binding.  No step ever unbinds
\* a key or replaces the backend instance bound to it.
C13_RegisterOnce ==
  [][/\ \A key \in RegisterKeys, b \in CustomBackends :
          RegisterBackend(key, b) =>
            IF key \in DOMAIN registeredBackends
            THEN /\ ret'.err # ""
                 /\ registeredBackends' = registeredBackends
            ELSE /\ ret'.err = ""
                 /\ DOMAIN registeredBackends' = DOMAIN registeredBackends \cup {key}
                 /\ registeredBackends'[key] = b
                 /\ \A k \in DOMAIN registeredBackends :
                      registeredBackends'[k] = registeredBackends[k]
     /\ \A k \in DOMAIN registeredBackends :
          /\ k \in DOMAIN registeredBackends'
          /\ registeredBackends'[k].type = registeredBackends[k].type
    ]_vars

\* C13 witness: a registration under the key "custom" has just been refused
\* because the key is bound, and so has, in another state, one under the
\* built-in key "postgres".
C13_Witness ==
  /\ ret.op = "RegisterBackend"
  /\ ret.arg = "custom"
  /\ ret.err # ""
  /\ "custom" \in DOMAIN registeredBackends
  /\ registeredBackends["custom"].type = "SQLite"

\* --------------------------------------------------------------- C16

\* C16: UseBackend with an unregistered key returns an error and leaves the
\* Migrator, its binding included, and the registry unchanged; with a
\* registered key it returns no error, the Migrator is bound to that key and
\* the backend is set up for the Migrator's handle, table name and schema
\* (the SQLite backend has no schema).
C16_UseBackend ==
  [][\A i \in 1..MaxShared, key \in UseKeys :
       UseBackend(i, key) =>
         IF key \notin DOMAIN registeredBackends
         THEN /\ ret'.err # ""
              /\ migrators'[i] = migrators[i]
              /\ registeredBackends' = registeredBackends
         ELSE /\ ret'.err = ""
              /\ migrators'[i].backend = key
              /\ registeredBackends'[key].type = registeredBackends[key].type
              /\ registeredBackends'[key].db = migrators[i].db
              /\ registeredBackends'[key].table = migrators[i].TableName
              /\ registeredBackends[key].type # "SQLite" =>
                   registeredBackends'[key].tableSchema = migrators[i].tableSchema
    ]_vars

\* C16 witness: a Migrator bound to a registered custom backend has just
\* been refused an unregistered key and is still bound to the custom one.
C16_Witness ==
  \E i \in 1..MaxShared :
    /\ ret.op = "UseBackend"
    /\ ret.m = i
    /\ ret.err # ""
    /\ migrators[i].backend = "custom"
    /\ registeredBackends["custom"].table = migrators[i].TableName

\* --------------------------------------------------------------- C17

\* The built-in table: dialect key -> driver identifiers.
defaultBackends ==
  [ postgres  |-> {"postgres", "pgx", "pq-timeouts", "cloudsqlpostgres",
                   "nrpostgres", "cockroach"},
    mysql     |-> {"mysql", "nrmysql"},
    sqlite    |-> {"sqlite", "sqlite3", "nrsqlite3"},
    oracle    |-> {"oci8", "ora", "goracle", "godror"},
    sqlserver |-> {"sqlserver"} ]

\* C17: BackendType returns, for a driver identifier of the built-in table,
\* the dialect key under which the table lists it, and "unknown" for every
\* other identifier.
C17_BackendType ==
  ret.op = "BackendType" =>
    /\ \A dialect \in DOMAIN defaultBackends :
         ret.arg \in defaultBackends[dialect] => ret.val = dialect
    /\ (\A dialect \in DOMAIN defaultBackends :
          ret.arg \notin defaultBackends[dialect]) => ret.val = "unknown"

\* C17 witness: BackendType was asked for a driver the table does not list
\* by its dialect's name.
C17_Witness ==
  /\ ret.op = "BackendType"
  /\ ret.arg = "cockroach"
  /\ ret.val = "postgres"

\* --------------------------------------------------------------- C14

\* The goroutines whose call of RegisterBackend(key, ...) returned nil.
Winners(key) ==
  {g \in DOMAIN goroutines :
     /\ goroutines[g].pc = "done"
     /\ goroutines[g].key = key
     /\ goroutines[g].err = ""}

\* C14 (as claimed): concurrent registration is safe.  The process is not
\* aborted, at most one of the concurrent calls for a key returns nil (the
\* others return the already-registered error), and the key stays bound to
\* the backend of the call that returned nil.
C14_ConcurrentRegistration ==
  /\ \A g \in DOMAIN goroutines : goroutines[g].pc # "crashed"
  /\ \A key \in RegisterKeys :
       /\ Cardinality(Winners(key)) <= 1
       /\ \A g \in Winners(key) :
            /\ key \in DOMAIN registeredBackends
            /\ registeredBackends[key] = goroutines[g].backend

\* --------------------------------------------------------------- C15

\* The positions of run() at which the next step is a call of the backend:
\* HasMigrationTable, CreateMigrationTable, RepairHashes (its call and each
\* of its UPDATEs), QueryPrevious and InsertRecord.
BackendCalls == {"check", "create", "repair", "update", "previous", "insert"}

\* C15 (as claimed): whenever the run of a Migrator is about to call its
\* backend, the backend is bound to that Migrator's own handle, table name
\* and schema, whatever other Migrators selected the same key.
C15_OwnBinding ==
  \A i \in DOMAIN migrators :
    frames[i].pc \in BackendCalls =>
      /\ BackendOf(i).db = migrators[i].db
      /\ BackendOf(i).table = migrators[i].TableName
      /\ BackendOf(i).type # "SQLite" =>
           BackendOf(i).tableSchema = migrators[i].tableSchema

\* --------------------------------------------------------------- C18

\* C18 (as claimed): a run writes a stored checksum (issues the UPDATE of a
\* repair) only for names that RepairHash marked since the Migrator's
\* previous run processed its repairs; RepairHash leaves the mark "" and
\* repairHashes replaces it by the hash it writes.  The names repairHashes
\* hands to the UPDATE loop all carry the mark "", and every UPDATE the
\* loop issues is for one of them.
C18_RepairNextRunOnly ==
  [][\A i \in 1..MaxMigrators :
       /\ (frames[i].pc = "repair" /\ frames'[i].pc # "repair") =>
            \A n \in frames'[i].todo : migrators[i].repair[n] = ""
       /\ frames[i].pc = "update" =>
            \A k \in UpdatedIn(frames'[i].tx.ops) \ UpdatedIn(frames[i].tx.ops) :
              frames'[i].tx.ops[k].name \in frames[i].todo
    ]_vars

\* What the code does instead: a name stays marked for the life of the
\* Migrator.
C18_MarksKept ==
  [][\A i \in 1..MaxMigrators :
       (migrators[i].live /\ migrators'[i].migrations # <<>>) =>
         DOMAIN migrators[i].repair \subseteq DOMAIN migrators'[i].repair
    ]_vars

\* --------------------------------------------------------------- C19

\* C19: a run that created the tracking table and then aborts leaves the
\* table in place, without any record.
C19_CreationKept ==
  [][\A i \in 1..MaxMigrators :
       /\ (Returning(i) /\ CreatedInRun(i)) =>
            dbTables'[migrators[i].db][migrators[i].TableName].exists
       /\ (Finishing(i) /\ frames[i].created /\ frames[i].err # "") =>
            /\ ret'.err # ""
            /\ TrackingRowsAfter(i) = <<>>
    ]_vars

\* C19 witness: a run created the tracking table, executed and recorded a
\* migration in its transaction and then failed on a later one.
C19_Witness ==
  \E i \in 1..MaxMigrators :
    /\ frames[i].pc = "finish"
    /\ frames[i].created
    /\ Contains(frames[i].err, "run error")
    /\ InsertedIn(frames[i].tx.ops) # {}
    /\ dbTables[migrators[i].db][migrators[i].TableName].exists

\* --------------------------------------------------------------- C20

\* C20 (as claimed): the checksum of every migration of a ledger is what
\* hashQuery yields for its statement and its individual arguments.
C20_ChecksumOfArguments ==
  \A i \in 1..MaxMigrators :
    \A k \in 1..Len(Ledger(i)) :
      Ledger(i)[k].hash = hashQuery(Ledger(i)[k].Statement, Ledger(i)[k].args)

\* What the code computes instead: the digest of the statement followed by
\* the %v form of the argument slice as a whole, "[a1 a2 ...]" ("[]" without
\* arguments); this is also the checksum a committed run stores.
C20_ChecksumOfSlice ==
  [][\A i \in 1..MaxMigrators :
       /\ \A k \in 1..Len(migrators'[i].migrations) :
            LET mig == migrators'[i].migrations[k]
            IN mig.hash =
                 md5Hex(mig.Statement \o "[" \o joinV(mig.args, 1) \o "]")
       /\ (Finish(i, TRUE) /\ frames[i].commit) =>
            \A k \in 1..Len(Ledger(i)) :
              Ledger(i)[k].Name \in Pending(i) =>
                StoredHashes(TrackingRowsAfter(i), Ledger(i)[k].Name)
                  = {Ledger(i)[k].hash}
    ]_vars

\* --------------------------------------------------------------- C21

\* The positions of run() between Beginx and the deferred function.
InTransaction == {"repair", "update", "previous", "migrate", "insert", "finish"}

\* C21: commit-or-rollback on every exit path.  A transaction is open
\* exactly while run() is between Beginx and its deferred function; every
\* return of a run that opened a transaction goes through the deferred
\* function, which calls Commit if and only if the run returns no error and
\* Rollback if and only if it returns an error; after a Rollback the
\* committed tables and schema are what they were.  No Migrator that is not
\* running holds an open transaction.
C21_CommitOrRollback ==
  [][\A i \in 1..MaxMigrators :
       /\ frames'[i].tx.state = "open" <=> frames'[i].pc \in InTransaction
       /\ (Returning(i) /\ frames[i].tx.state = "open") =>
            /\ Finishing(i)
            /\ frames'[i].tx.state = "none"
            /\ Deferred(frames[i]) = "Commit" <=> ret'.err = ""
            /\ Deferred(frames[i]) = "Rollback" <=> ret'.err # ""
            /\ Deferred(frames[i]) = "Rollback" =>
                 (dbTables' = dbTables /\ dbSchema' = dbSchema)
       /\ (frames[i].tx.state = "open" /\ ~Finishing(i)) =>
            /\ frames'[i].tx.state = "open"
            /\ SubSeq(frames'[i].tx.ops, 1, Len(frames[i].tx.ops))
                 = frames[i].tx.ops
    ]_vars

\* C21 witness: a run whose transaction holds a repair fails to fetch the
\* ledger and is about to roll back.
C21_Witness ==
  \E i \in 1..MaxMigrators :
    /\ frames[i].pc = "finish"
    /\ frames[i].tx.state = "open"
    /\ frames[i].err = "get previous migrations failed"
    /\ UpdatedIn(frames[i].tx.ops) # {}
    /\ Deferred(frames[i]) = "Rollback"

\* --------------------------------------------------------------- C22

\* The tracking table of Migrator i exists (committed).
TableExists(i) == dbTables[migrators[i].db][migrators[i].TableName].exists

\* The entries a run has appended to the log after its first n entries are
\* those of the migrations it attempted, in ledger order.
MigrationEntries(i, n) ==
  LET log == migrators'[i].log
      start == frames[i].logStart + n
  IN /\ Len(log) = start + Attempted(i)
     /\ \A k \in 1..Attempted(i) : log[start + k].Name = Ledger(i)[k].Name

\* C22: creation of the tracking table.  When the existence check of a run
\* succeeds, creation is attempted if and only if the table does not exist.
\* When the creation succeeds, it happens before the transaction is opened,
\* the table exists afterwards, and the run appends, as its first entry, one
\* named create_<table>_table with status SUCCESS; the entries of the
\* migrations follow it.  A run that finds the table appends migration
\* entries only.
C22_TableCreation ==
  [][\A i \in 1..MaxMigrators :
       /\ (frames[i].pc = "check" /\ frames'[i].pc # "idle") =>
            (frames'[i].pc = "create" <=> ~TableExists(i))
       /\ (frames[i].pc = "create" /\ frames'[i].pc # "idle") =>
            /\ ~TableExists(i)
            /\ dbTables'[migrators[i].db][migrators[i].TableName].exists
            /\ frames[i].tx.state = "none"
            /\ frames'[i].pc = "begin"
            /\ Len(migrators[i].log) = frames[i].logStart
            /\ Len(migrators'[i].log) = frames[i].logStart + 1
            /\ LastLog(i).Name = SyntheticName(i)
            /\ LastLog(i).Status = SUCCESS
       /\ (Returning(i) /\ frames[i].created) =>
            /\ migrators'[i].log[frames[i].logStart + 1].Name = SyntheticName(i)
            /\ migrators'[i].log[frames[i].logStart + 1].Status = SUCCESS
            /\ MigrationEntries(i, 1)
       /\ (Returning(i) /\ TableExists(i) /\ ~frames[i].created) =>
            /\ frames[i].pc # "create"
            /\ MigrationEntries(i, 0)
    ]_vars

\* C22 witness: the second run of a Migrator, after a run whose creation of
\* the table failed, created the table and applied the migration of its
\* ledger: the log holds the failed creation, the creation and the migration.
C22_Witness ==
  \E i \in 1..MaxMigrators :
    /\ frames[i].pc = "finish"
    /\ frames[i].created
    /\ frames[i].logStart = 1
    /\ Len(Ledger(i)) = 1
    /\ Len(migrators[i].log) = 3
    /\ migrators[i].log[1].Status = ERROR
    /\ migrators[i].log[2].Name = SyntheticName(i)
    /\ migrators[i].log[2].Status = SUCCESS
    /\ migrators[i].log[3].Name = Ledger(i)[1].Name

\* --------------------------------------------------------------- C23

\* C23: tracking-table errors abort before any transaction.  When the
\* existence check fails, or the creation of the table fails, the run
\* returns an error at once: no transaction was opened, no repair was
\* written or prepared, no statement executed and no record inserted; the
\* tables and the schema are unchanged.
C23_TableErrorsAbort ==
  [][\A i \in 1..MaxMigrators :
       (CheckTable(i, FALSE) \/ CreateTable(i, FALSE)) =>
         /\ Returning(i)
         /\ ret'.err # ""
         /\ frames[i].tx = NoTx
         /\ frames'[i].tx = NoTx
         /\ frames[i].idx = 0
         /\ migrators'[i].repair = migrators[i].repair
         /\ migrators'[i].previous = migrators[i].previous
         /\ dbTables' = dbTables
         /\ dbSchema' = dbSchema
    ]_vars

\* C23 witness: the run of a Migrator with a migration to apply and a repair
\* scheduled has just returned because the creation of the table failed.
C23_Witness ==
  \E i \in 1..MaxMigrators :
    /\ Idle
    /\ ret.op = "Run"
    /\ ret.m = i
    /\ ret.err = "create '" \o migrators[i].TableName \o "' table failed"
    /\ Ledger(i) # <<>>
    /\ "" \in {migrators[i].repair[k] : k \in DOMAIN migrators[i].repair}
    /\ ~TableExists(i)
    /\ dbSchema[migrators[i].db] = <<>>

\* --------------------------------------------------------------- C24

\* The run that is finishing stopped because the insert of a record failed.
InsertFailed(i) ==
  /\ Attempted(i) > 0
  /\ Contains(RunLog(i)[Attempted(i)].Details, "record insert failed")

\* C24: a record insert that fails undoes the statement.  When the statement
\* of a new migration was executed and the insert of its record fails, the
\* run stops, the entry appended for the migration has status ERROR, the run
\* returns an error and rolls back: the committed schema and tracking table
\* are what they were before the run, so neither this statement nor those of
\* the migrations applied earlier in the run took effect.
C24_InsertFailure ==
  [][\A i \in 1..MaxMigrators :
       /\ InsertRecord(i, FALSE) =>
            /\ Len(ExecutedIn(frames[i].tx.ops)) > 0
            /\ frames'[i].pc = "finish"
            /\ frames'[i].err # ""
            /\ Deferred(frames'[i]) = "Rollback"
            /\ Len(migrators'[i].log) = Len(migrators[i].log) + 1
            /\ LastLog(i).Name = Ledger(i)[frames[i].idx].Name
            /\ LastLog(i).Status = ERROR
            /\ Contains(LastLog(i).Details, "record insert failed")
       /\ (Finishing(i) /\ InsertFailed(i)) =>
            /\ RunLog(i)[Attempted(i)].Status = ERROR
            /\ ret'.err # ""
            /\ dbSchema' = dbSchema
            /\ dbTables' = dbTables
            /\ RowNames(TrackingRowsAfter(i)) \cap InsertedIn(frames[i].tx.ops) = {}
    ]_vars

\* C24 witness: a run applied one migration, executed the statement of a
\* second one and failed to insert its record.
C24_Witness ==
  \E i \in 1..MaxMigrators :
    /\ frames[i].pc = "finish"
    /\ InsertFailed(i)
    /\ Len(ExecutedIn(frames[i].tx.ops)) = 2
    /\ Cardinality(InsertedIn(frames[i].tx.ops)) = 1
    /\ RunLog(i)[1].Status = SUCCESS
    /\ RunLog(i)[2].Status = ERROR

\* --------------------------------------------------------------- C25

\* C25: a repair failure aborts before any migration runs.  When an UPDATE
\* of the repair step fails, the run goes straight to its deferred function
\* with the repair error and commit = false: the ledger is not fetched, no
\* migration is handed to executeMigration, no statement is executed, no
\* record inserted and no migration entry appended; the run returns the
\* repair error and the rollback leaves every table as it was, the UPDATEs
\* issued before the failing one included.
C25_RepairFailure ==
  [][\A i \in 1..MaxMigrators :
       /\ \A n \in Names :
            (RepairUpdate(i, n, FALSE)
              \/ (RepairUpdate(i, n, TRUE) /\ ~TableExists(i))) =>
              /\ frames'[i].pc = "finish"
              /\ frames'[i].err = "repair hashes failed"
              /\ Deferred(frames'[i]) = "Rollback"
              /\ frames'[i].idx = 0
              /\ migrators'[i].previous = migrators[i].previous
              /\ migrators'[i].log = migrators[i].log
       /\ (Finishing(i) /\ frames[i].err = "repair hashes failed") =>
            /\ ret'.err = "repair hashes failed"
            /\ Attempted(i) = 0
            /\ ExecutedIn(frames[i].tx.ops) = <<>>
            /\ InsertedIn(frames[i].tx.ops) = {}
            /\ Len(migrators'[i].log) =
                 frames[i].logStart + (IF frames[i].created THEN 1 ELSE 0)
            /\ dbTables' = dbTables
            /\ dbSchema' = dbSchema
    ]_vars

\* C25 witness: a run with two repairs to write wrote the first, which
\* changes a stored checksum, and failed on the second; its ledger holds a
\* migration that has no record yet.
C25_Witness ==
  \E i \in 1..MaxMigrators :
    /\ frames[i].pc = "finish"
    /\ frames[i].err = "repair hashes failed"
    /\ Len(Ledger(i)) = 2
    /\ Pending(i) # {}
    /\ \E k \in UpdatedIn(frames[i].tx.ops) :
         LET o == frames[i].tx.ops[k]
         IN /\ o.name \in RowNames(TrackingRows(i))
            /\ o.hash \notin StoredHashes(TrackingRows(i), o.name)

\* --------------------------------------------------------------- C26

\* C26: repairs come before the drift check.  In a safe run, the step that
\* handles a migration which is scheduled for repair and has an Applied
\* Record appends the entry "already applied" (PREVIOUS), with the plain
\* detail and without error, whatever checksum the record holds; the run
\* goes on, executes no statement for it and never reports it as
\* checksum-mismatch.
C26_RepairBeforeDrift ==
  [][\A i \in 1..MaxMigrators :
       /\ (/\ frames[i].pc = "migrate"
           /\ migrators[i].safe
           /\ RepairScheduled(i, frames[i].idx)
           /\ Ledger(i)[frames[i].idx].Name \in RowNames(TrackingRows(i))) =>
            /\ Len(migrators'[i].log) = Len(migrators[i].log) + 1
            /\ LastLog(i).Name = Ledger(i)[frames[i].idx].Name
            /\ LastLog(i).Status = PREVIOUS
            /\ LastLog(i).Details = "migration already run"
            /\ frames'[i].err = ""
            /\ frames'[i].commit
            /\ frames'[i].tx.ops = frames[i].tx.ops
       /\ (Finishing(i) /\ migrators[i].safe) =>
            \A k \in 1..Attempted(i) :
              (/\ RepairScheduled(i, k)
               /\ Ledger(i)[k].Name \in RowNames(TrackingRows(i))) =>
                 RunLog(i)[k].Status = PREVIOUS
    ]_vars

\* C26 witness: a safe run passed a drifted migration that is scheduled for
\* repair, classified it as already applied and went on to apply the next.
C26_Witness ==
  \E i \in 1..MaxMigrators :
    /\ frames[i].pc = "finish"
    /\ migrators[i].safe
    /\ frames[i].err = ""
    /\ \E k \in Drifted(i) :
         /\ RepairScheduled(i, k)
         /\ k < Len(Ledger(i))
         /\ RunLog(i)[k].Status = PREVIOUS
         /\ RunLog(i)[k].Details = "migration already run"
         /\ RunLog(i)[k + 1].Status = SUCCESS

\* --------------------------------------------------------------- C27

\* The writes of the repair step among the pending writes of a transaction.
RepairsIn(ops) == SelectSeq(ops, LAMBDA o : o.op = "update")

\* The rows of Migrator i's tracking table as a SELECT inside its
\* transaction sees them right after the repair step.
RowsInTransaction(i) ==
  ApplyOps(dbTables[frames[i].tx.db], RepairsIn(frames[i].tx.ops), 1)
    [migrators[i].TableName].rows

\* C27 (as claimed): the ledger a run works with, m.previous, is the
\* name-to-checksum mapping of the rows as the run's transaction sees them
\* after the repair step: it holds the checksums the repair step wrote.
C27_LedgerInTransaction ==
  \A i \in 1..MaxMigrators :
    frames[i].pc \in {"migrate", "insert"} =>
      migrators[i].previous =
        PreviousMap(RowsInTransaction(i), Len(RowsInTransaction(i)))

\* What the code does instead: the SELECT runs on the *sqlx.DB handle, so
\* m.previous is the mapping of the committed rows, with the checksums that
\* were stored before the run.
C27_LedgerCommitted ==
  \A i \in 1..MaxMigrators :
    frames[i].pc \in {"migrate", "insert"} =>
      migrators[i].previous = PreviousMap(TrackingRows(i), Len(TrackingRows(i)))

\* --------------------------------------------------------------- C28

\* The names marked for repair that no migration of the ledger carries.
UnknownMarks(i) == DOMAIN migrators[i].repair \ LedgerNames(i)

\* C28: repairing an unknown name is a no-op.  The repair step of a run
\* issues UPDATEs for names of ledger migrations only; a run in which only
\* unknown names are marked issues none and its repair step cannot fail;
\* and when a run returns, the stored checksums of the records that carry
\* an unknown marked name are what they were.
C28_UnknownRepair ==
  [][\A i \in 1..MaxMigrators :
       /\ (frames[i].pc = "repair" /\ frames'[i].pc # "repair") =>
            /\ frames'[i].todo \subseteq LedgerNames(i)
            /\ DOMAIN migrators[i].repair \subseteq UnknownMarks(i) =>
                 /\ frames'[i].pc = "previous"
                 /\ frames'[i].err = ""
                 /\ frames'[i].tx.ops = <<>>
       /\ frames[i].pc = "update" =>
            \A k \in UpdatedIn(frames'[i].tx.ops) :
              frames'[i].tx.ops[k].name \in LedgerNames(i)
       /\ Finishing(i) =>
            \A n \in UnknownMarks(i) :
              StoredHashes(TrackingRowsAfter(i), n) = StoredHashes(TrackingRows(i), n)
    ]_vars

\* C28 witness: a run is about to commit the migration of its ledger while
\* a name that is not in the ledger, but has an Applied Record, is marked.
C28_Witness ==
  \E i \in 1..MaxMigrators :
    /\ frames[i].pc = "finish"
    /\ frames[i].commit
    /\ InsertedIn(frames[i].tx.ops) # {}
    /\ UpdatedIn(frames[i].tx.ops) = {}
    /\ \E n \in UnknownMarks(i) : n \in RowNames(TrackingRows(i))

\* --------------------------------------------------------------- C29

\* The migration the loop of run() is at is marked for repair and has no
\* Applied Record.
MarkedWithoutRecord(i) ==
  /\ RepairScheduled(i, frames[i].idx)
  /\ Ledger(i)[frames[i].idx].Name \notin RowNames(TrackingRows(i))

\* C29: a repair scheduled for a ledger migration without Applied Record.
\* The UPDATEs of the repair step create no record.  In a run in which no
\* database call fails, such a migration is handled as a new one: its
\* statement is executed (once), then its record is inserted with the
\* migration's checksum and the entry appended has status SUCCESS, and the
\* run does not fail on it; when the run commits, the table holds one
\* record of its name, with that checksum.
C29_RepairWithoutRecord ==
  [][\A i \in 1..MaxMigrators :
       /\ frames[i].tx.state = "open" =>
            RowNames(RowsInTransaction(i)) = RowNames(TrackingRows(i))
       /\ (ExecuteMigration(i, TRUE) /\ MarkedWithoutRecord(i)) =>
            /\ frames'[i].pc = "insert"
            /\ frames'[i].tx.ops =
                 Append(frames[i].tx.ops,
                        ExecOp(Ledger(i)[frames[i].idx].Statement,
                               Ledger(i)[frames[i].idx].args))
       /\ (InsertRecord(i, TRUE) /\ MarkedWithoutRecord(i)) =>
            /\ InsertedIn(frames'[i].tx.ops) =
                 InsertedIn(frames[i].tx.ops) \cup {Ledger(i)[frames[i].idx].Name}
            /\ frames'[i].tx.ops[Len(frames'[i].tx.ops)].hash =
                 Ledger(i)[frames[i].idx].hash
            /\ LastLog(i).Name = Ledger(i)[frames[i].idx].Name
            /\ LastLog(i).Status = SUCCESS
            /\ frames'[i].err = ""
       /\ (Finish(i, TRUE) /\ frames[i].commit) =>
            /\ Len(ExecutedIn(frames[i].tx.ops)) = Cardinality(Pending(i))
            /\ \A k \in 1..Len(Ledger(i)) :
                 (RepairScheduled(i, k) /\ Ledger(i)[k].Name \in Pending(i)) =>
                   /\ RunLog(i)[k].Status = SUCCESS
                   /\ Cardinality({x \in 1..Len(TrackingRowsAfter(i)) :
                        TrackingRowsAfter(i)[x].name = Ledger(i)[k].Name}) = 1
                   /\ StoredHashes(TrackingRowsAfter(i), Ledger(i)[k].Name)
                        = {Ledger(i)[k].hash}
    ]_vars

\* C29 witness: a run is about to commit a migration that was marked for
\* repair and had no record: its transaction holds the UPDATE of the repair,
\* the statement and the INSERT, and the entry is SUCCESS.
C29_Witness ==
  \E i \in 1..MaxMigrators :
    /\ frames[i].pc = "finish"
    /\ frames[i].commit
    /\ \E k \in 1..Len(Ledger(i)) :
         /\ RepairScheduled(i, k)
         /\ Ledger(i)[k].Name \in Pending(i)
         /\ Ledger(i)[k].Name \in InsertedIn(frames[i].tx.ops)
         /\ \E u \in UpdatedIn(frames[i].tx.ops) :
              frames[i].tx.ops[u].name = Ledger(i)[k].Name
         /\ RunLog(i)[k].Status = SUCCESS

\* --------------------------------------------------------------- C30

\* The step assigns a fresh Migrator to variable i.
IsNew(i) == \E db \in DBs, t \in TableNames, s \in Schemas : New(i, db, t, s)

\* C30: migrations are immutable once added.  Whatever a program calls on a
\* Migrator (AddMigration, RepairHash, UseBackend, Run, RunUnsafe, and every
\* step of a run), its list of migrations only grows at the end: every
\* migration keeps its position, name, comment, statement, arguments and
\* checksum, and the checksum stays the one computed when it was added.
C30_ImmutableMigrations ==
  [][\A i \in 1..MaxMigrators :
       ~IsNew(i) =>
         /\ Len(migrators'[i].migrations) >= Len(migrators[i].migrations)
         /\ \A k \in 1..Len(migrators[i].migrations) :
              /\ migrators'[i].migrations[k] = migrators[i].migrations[k]
              /\ migrators'[i].migrations[k].hash =
                   hashQuery(migrators[i].migrations[k].Statement,
                             <<Slice(migrators[i].migrations[k].args)>>)
    ]_vars

\* C30 witness: a Migrator that has run, has a name marked for repair and
\* was moved to another backend by UseBackend, has been given a second
\* migration by AddMigration.
C30_Witness ==
  \E i \in 1..MaxMigrators :
    /\ ret.op = "AddMigration"
    /\ ret.m = i
    /\ ret.err = ""
    /\ Len(Ledger(i)) = 2
    /\ migrators[i].log # <<>>
    /\ migrators[i].repair # EmptyMap
    /\ migrators[i].backend = "sqlite"

\* --------------------------------------------------------------- C31

\* The step commits a run of a Migrator in which name is marked for repair
\* and is the name of a ledger migration with checksum hash.
RepairCommitted(name, hash) ==
  \E i \in 1..MaxMigrators :
    /\ Finish(i, TRUE)
    /\ frames[i].commit
    /\ name \in DOMAIN migrators[i].repair
    /\ \E k \in 1..Len(Ledger(i)) :
         Ledger(i)[k].Name = name /\ Ledger(i)[k].hash = hash

\* C31: Applied Records are stable.  In every step, every tracking table
\* keeps all its rows, in place, with their name and comment; the stored
\* checksum of a row changes only in the step that commits a run in which
\* its name is marked for repair and is the name of a ledger migration,
\* whose checksum it becomes; and a table, once there, stays.
C31_StableRecords ==
  [][\A d \in DBs, t \in TableNames :
       LET old == dbTables[d][t]
           new == dbTables'[d][t]
       IN /\ old.exists => new.exists
          /\ Len(new.rows) >= Len(old.rows)
          /\ \A k \in 1..Len(old.rows) :
               /\ new.rows[k].name = old.rows[k].name
               /\ new.rows[k].comment = old.rows[k].comment
               /\ new.rows[k].hash # old.rows[k].hash =>
                    RepairCommitted(old.rows[k].name, new.rows[k].hash)
    ]_vars

\* C31 witness: a run is about to commit a repair that changes the stored
\* checksum of one record of a table that holds a record of another name.
C31_Witness ==
  \E i \in 1..MaxMigrators :
    /\ frames[i].pc = "finish"
    /\ frames[i].commit
    /\ Len(TrackingRows(i)) = 2
    /\ \E k \in UpdatedIn(frames[i].tx.ops) :
         LET o == frames[i].tx.ops[k]
         IN /\ o.name \in RowNames(TrackingRows(i))
            /\ o.hash \notin StoredHashes(TrackingRows(i), o.name)

\* --------------------------------------------------------------- C32

\* Migrator i is in a run that has executed the statement of the migration
\* called name and has not committed or rolled back yet.
ExecutedUncommitted(i, name) ==
  /\ frames[i].tx.state = "open"
  /\ \E k \in 1..Len(Ledger(i)) :
       /\ Ledger(i)[k].Name = name
       /\ \E x \in 1..Len(frames[i].tx.ops) :
            frames[i].tx.ops[x] = ExecOp(Ledger(i)[k].Statement, Ledger(i)[k].args)

\* C32: Migrators that run concurrently take no lock, so they race.  A run
\* attempts the creation of the table whenever its own check found none,
\* also when another run has created the table since: that CREATE TABLE
\* fails, the run logs ERROR and returns the creation error.  A run executes
\* the statement of a migration whenever the ledger it fetched has no record
\* of the name, whatever another run has executed, inserted or committed
\* since.  (That both races happen is what the witness shows.)
C32_Races ==
  [][\A i \in DOMAIN migrators :
       /\ (frames[i].pc = "check" /\ frames'[i].pc = "create") => ~TableExists(i)
       /\ (frames[i].pc = "create" /\ frames'[i] # frames[i]) =>
            IF TableExists(i)
            THEN /\ Returning(i)
                 /\ ret'.err # ""
                 /\ LastLog(i).Name = SyntheticName(i)
                 /\ LastLog(i).Status = ERROR
                 /\ dbTables' = dbTables
            ELSE /\ frames'[i].pc = "begin"
                 /\ LastLog(i).Status = SUCCESS
       /\ (frames[i].pc = "migrate" /\ frames'[i] # frames[i]) =>
            (ExecutesStatement(i) <=>
               Ledger(i)[frames[i].idx].Name \notin DOMAIN migrators[i].previous)
    ]_vars

\* C32 witness: Migrators i and j both found the table missing and both
\* attempted to create it (i's log holds the creation, j's the failed one);
\* now both are in a run that found the same name without record and
\* executed its statement, i has inserted the record and j's INSERT is under
\* way.
C32_Witness ==
  \E i, j \in DOMAIN migrators :
    /\ i # j
    /\ migrators[i].db = migrators[j].db
    /\ migrators[i].TableName = migrators[j].TableName
    /\ \E x \in 1..Len(migrators[i].log) :
         /\ migrators[i].log[x].Name = SyntheticName(i)
         /\ migrators[i].log[x].Status = SUCCESS
    /\ \E x \in 1..Len(migrators[j].log) :
         /\ migrators[j].log[x].Name = SyntheticName(j)
         /\ migrators[j].log[x].Status = ERROR
    /\ ExecutedUncommitted(i, "m_b")
    /\ ExecutedUncommitted(j, "m_b")
    /\ "m_b" \in InsertedIn(frames[i].tx.ops)
    /\ frames[j].pc = "insert"

\* --------------------------------------------------------------- C33

\* C33: the unique index on name holds under concurrency.  No committed
\* tracking table ever holds two records of one name.  While another open
\* transaction holds an uncommitted record of the name an INSERT does not
\* succeed: it waits, or the database makes it fail (lock timeout,
\* deadlock).  The INSERT of a name that another run has committed fails.
\* The run whose INSERT failed logs ERROR, stops and rolls back, so that
\* nothing of it is committed.
C33_UniqueNames ==
  [][/\ \A d \in DBs, t \in SharedTables : NoDuplicateRows(dbTables'[d][t].rows)
     /\ \A i \in DOMAIN migrators :
          /\ (/\ frames[i].pc = "insert"
              /\ frames'[i] # frames[i]
              /\ \/ InsertWaits(i, Ledger(i)[frames[i].idx].Name)
                 \/ Ledger(i)[frames[i].idx].Name \in RowNames(TrackingRows(i))) =>
               /\ frames'[i].pc = "finish"
               /\ frames'[i].err # ""
               /\ Deferred(frames'[i]) = "Rollback"
               /\ frames'[i].tx.ops = frames[i].tx.ops
               /\ LastLog(i).Status = ERROR
          /\ (Finishing(i) /\ InsertFailed(i)) =>
               /\ ret'.err # ""
               /\ dbTables' = dbTables
               /\ dbSchema' = dbSchema
    ]_vars

\* C33 witness: Migrator j executed the statement of a migration whose
\* record Migrator i committed in the meantime; j's INSERT failed and j is
\* about to roll back.
C33_Witness ==
  \E i, j \in DOMAIN migrators :
    /\ i # j
    /\ migrators[i].TableName = migrators[j].TableName
    /\ frames[j].pc = "finish"
    /\ InsertFailed(j)
    /\ ExecutedUncommitted(j, "m_b")
    /\ "m_b" \notin DOMAIN migrators[j].previous
    /\ "m_b" \in RowNames(TrackingRows(j))
    /\ \E x \in 1..Len(migrators[i].log) :
         migrators[i].log[x].Name = "m_b" /\ migrators[i].log[x].Status = SUCCESS

\* --------------------------------------------------------------- C34

\* The dialect key of a driver according to the built-in table.
DialectOf(driver) ==
  IF \E k \in DOMAIN defaultBackends : driver \in defaultBackends[k]
  THEN CHOOSE k \in DOMAIN defaultBackends : driver \in defaultBackends[k]
  ELSE "unknown"

\* C34: New selects the backend from the driver name of the handle.  It
\* returns no error, with the Migrator bound to the backend registered under
\* the driver's dialect key and that backend set up for the Migrator,
\* exactly when a backend is registered under that key; otherwise it returns
\* an error and a Migrator without backend, and leaves the registry as it
\* is.  The keys registered from the start are mysql, postgres and sqlite.
C34_NewSelectsBackend ==
  [][\A i \in 1..MaxShared, db \in Handles, t \in TableNames, s \in Schemas :
       New(i, db, t, s) =>
         LET key == DialectOf(HandleDrivers[db])
         IN /\ ret'.err = "" <=> key \in DOMAIN registeredBackends
            /\ IF key \in DOMAIN registeredBackends
               THEN /\ migrators'[i].backend = key
                    /\ registeredBackends'[key].db = db
                    /\ registeredBackends'[key].table = t
               ELSE /\ migrators'[i].backend = ""
                    /\ registeredBackends' = registeredBackends
            /\ {"mysql", "postgres", "sqlite"} \subseteq DOMAIN registeredBackends
            /\ (DOMAIN registeredBackends = {"mysql", "postgres", "sqlite"}) =>
                 (ret'.err = "" <=>
                    HandleDrivers[db] \in defaultBackends.mysql
                      \cup defaultBackends.postgres \cup defaultBackends.sqlite)
    ]_vars

\* C34 witness: New on a handle of an Oracle driver has returned no error,
\* bound to the backend a program registered under "oracle", while the
\* other Migrator variable holds what New returned, with an error, for a
\* handle of a SQL Server driver.
C34_Witness ==
  \E i, j \in 1..MaxShared :
    /\ ret.op = "New"
    /\ ret.m = i
    /\ ret.err = ""
    /\ migrators[i].db = "ora"
    /\ migrators[i].backend = "oracle"
    /\ registeredBackends["oracle"].db = "ora"
    /\ migrators[j].live
    /\ migrators[j].db = "mssql"
    /\ migrators[j].backend = ""

====
